---- MODULE Spec2Model ----
(***************************************************************************)
(* A state-machine model of the tryst-scraper extraction pipeline:         *)
(*   - the adaptive rate controller of profile_scraper.py                  *)
(*     (get_adaptive_delay / increase_rate_limit_delay /                   *)
(*      reset_rate_limit_delay under RATE_LIMIT_LOCK);                     *)
(*   - the threaded file pipeline of profile_scraper.py                    *)
(*     (scrape_from_url_file, scrape_profile_worker,                       *)
(*      selenium_scrape_profile_worker, scrape_single_profile);            *)
(*   - the asyncio pipeline of scraper.py (TrystScraper).                  *)
(* Delays are fixed-point numbers, in milliseconds.                        *)
(***************************************************************************)
EXTENDS Integers, Sequences, FiniteSets, TLC

VARIABLES
    mode,                \* which entry point this process runs
    argv_reset,          \* "--reset" in sys.argv of the current run
    dom,                 \* the page an extractor is run on
    data,                \* the record the extractor fills
    csvCells,            \* the cells of the row stored for the record
    epc,                 \* where the extraction of the page is
    all_urls,            \* the input URL list, as read from the URL file
    run,                 \* number of the current process run over the same files
    csvFile,             \* profile_data.csv: the data rows appended so far
    ledgerFile,          \* scraped_urls.txt: the lines appended so far
    opc,                 \* where the orchestrator is
    scraped_urls,        \* the orchestrator's in-memory copy of the ledger
    total_to_process,    \* profile_scraper.py:1476-1479
    current_batch_start, \* profile_scraper.py:1510
    remaining_to_process,\* profile_scraper.py:1511
    batch_size,          \* profile_scraper.py:1470
    current_batch_size,  \* profile_scraper.py:1517
    max_workers,         \* size of the worker pool
    completed,           \* profile_scraper.py:1502
    urls_to_scrape,      \* scraper.py:1338 (scrape_all), 1288 (scrape_batch)
    tasks,               \* the futures of the current batch
    csv_lock,            \* profile_scraper.py:1453, the task that holds it
    dispatched,          \* per run: the URLs handed to a worker
    fate,                \* per run and URL: how its last attempt ended
    startLedger,         \* the ledger entries at the start of the current run
    killed,              \* the previous run was killed
    CURRENT_DELAY,       \* profile_scraper.py:38
    RATE_LIMIT_COUNTER,  \* profile_scraper.py:34
    RATE_LIMIT_LOCK,     \* profile_scraper.py:35, the thread that holds it
    rc,                  \* per thread: the controller call it is making
    lastGet,             \* the value get_adaptive_delay returned, until it is slept on
    calls,               \* number of controller calls made so far
    lastMut,             \* the last increase/reset call: op, delay before, returned
    prevMut,             \* the increase/reset call before that one
    cpc,                 \* where the CAPTCHA handling of the page is
    markers,             \* the challenge markers in driver.page_source
    attempt,             \* the poll loop's counter
    polls,               \* getTaskResult requests sent for the task
    lastReply,           \* the service's last reply
    captcha_text,        \* what the solver function returned
    answers,             \* solver answers submitted to the page
    solverCalls,         \* calls of the solver function
    captcha_result,      \* what handle_captcha returned
    wpc,                 \* where load_all_profiles is
    initial_url,         \* profile_finder.py:627
    pages_to_visit,      \* profile_finder.py:644
    visited_pages,       \* profile_finder.py:645
    current_url,         \* profile_finder.py:648
    page_count,          \* profile_finder.py:632
    lastLoad,            \* how the load of current_url ended
    all_profile_links,   \* profile_finder.py:630
    urlFile,             \* profile_urls.txt: its lines
    prevFile,            \* the lines of the file before the last save_urls call
    lastUrls,            \* the argument of the last save_urls call
    prevUrls,            \* the argument of the call before it
    extracted,           \* per search page: times its profile links were read
    wrun                 \* number of the current run of the profile finder

rateVars == <<CURRENT_DELAY, RATE_LIMIT_COUNTER, RATE_LIMIT_LOCK, rc, lastGet,
              calls, lastMut, prevMut>>

durVars == <<csvFile, ledgerFile>>

orchVars == <<opc, scraped_urls, total_to_process, current_batch_start,
              remaining_to_process, batch_size, current_batch_size, max_workers,
              completed, urls_to_scrape>>

taskVars == <<tasks, csv_lock>>

histVars == <<dispatched, fate, startLedger, killed>>

argVars == <<argv_reset>>

extVars == <<dom, data, csvCells, epc>>

captchaVars == <<cpc, markers, attempt, polls, lastReply, captcha_text, answers,
                 solverCalls, captcha_result>>

walkerVars == <<wpc, initial_url, pages_to_visit, visited_pages, current_url, page_count,
                lastLoad, all_profile_links, urlFile, prevFile, lastUrls, prevUrls,
                extracted, wrun>>

finderVars == <<captchaVars, walkerVars>>

pipeVars == <<mode, argVars, extVars, finderVars, all_urls, run, durVars, orchVars, taskVars, histVars>>

vars == <<pipeVars, rateVars>>

----------------------------------------------------------------------------
(* Bounds of the model *)

NumCallers == 2          \* threads that call the controller in the "rate" harness
MaxCalls == 11           \* cap on the number of controller calls of the harness
NumUrls == 2             \* distinct URLs
MaxLen == 3              \* longest input URL list
MaxRuns == 2             \* process runs over the same files
MaxLenSelenium == 2      \* longest input URL list of a browser-driven run
MaxRows == 1             \* most rows of the contact panel of a page
MaxAnchors == 1          \* most links of a page outside its contact panel
NumPages == 3            \* search-result pages of the site

URLS == 1..NumUrls

\* profile_scraper.py:1470, 1450, 1568
InitialBatchSize == 100
start_index == 0
RateLimitThreshold == 5
\* profile_scraper.py:182
max_page_load_attempts == 3
\* scraper.py:162, 164
DEFAULT_BATCH_SIZE == 100
MAX_RETRIES == 3

\* pool sizes a run is started with
WorkerChoices == {2, 4}

----------------------------------------------------------------------------
(* Program constants, profile_scraper.py:36-37, in milliseconds *)

BASE_DELAY == 2000
MAX_DELAY == 60000

Min(a, b) == IF a <= b THEN a ELSE b
Max(a, b) == IF a >= b THEN a ELSE b

NoThread == -1
MainThread == 0
Callers == 1..NumCallers
ThreadIds == 0..Max(NumCallers, MaxLen)

\* random.uniform(-0.2, 0.2), in thousandths
JitterSet == {-200, 0, 200}

\* profile_scraper.py:45-46: CURRENT_DELAY + jitter, clamped
JitteredNoClamp(d, j) == d + (d * j) \div 1000
JitteredDelay(d, j) == Max(BASE_DELAY, Min(MAX_DELAY, d + (d * j) \div 1000))

\* profile_scraper.py:54: CURRENT_DELAY = min(MAX_DELAY, CURRENT_DELAY * 1.5)
IncreasedNoCap(d) == (d * 3) \div 2
IncreasedDelay(d) == Min(MAX_DELAY, (d * 3) \div 2)

\* profile_scraper.py:62-64: decay by 0.9 when above the base
DecayedNoFloor(d) == (d * 9) \div 10
DecayedDelay(d) == IF d > BASE_DELAY THEN Max(BASE_DELAY, (d * 9) \div 10) ELSE d

Idle == [op |-> "none", st |-> "none", tmp |-> 0]
Waiting(op) == [op |-> op, st |-> "wait", tmp |-> 0]
Inside(op) == [op |-> op, st |-> "in", tmp |-> 0]
\* inside the lock, with the value of RATE_LIMIT_COUNTER read for `+= 1`
Loaded(op, c) == [op |-> op, st |-> "loaded", tmp |-> c]
Returned(op) == [op |-> op, st |-> "ret", tmp |-> 0]
NoDelay == -1
NoMut == [op |-> "none", before |-> 0, val |-> 0, incs |-> 0]

----------------------------------------------------------------------------
(* The adaptive rate controller *)

\* threading.Lock: acquire succeeds only while no thread holds the lock
LockIgnored == TRUE
LockFree == RATE_LIMIT_LOCK = NoThread

\* `with RATE_LIMIT_LOCK:` entry of any of the three functions
LockAcquire(t) ==
    /\ rc[t].st = "wait"
    /\ LockFree
    /\ RATE_LIMIT_LOCK' = t
    /\ rc' = [rc EXCEPT ![t] = Inside(rc[t].op)]
    /\ UNCHANGED <<pipeVars, CURRENT_DELAY, RATE_LIMIT_COUNTER, lastGet, calls, lastMut,
                   prevMut>>

\* get_adaptive_delay: body under the lock, return, release
GetAdaptiveDelayBody(t) ==
    /\ rc[t] = Inside("get")
    /\ \E j \in JitterSet :
           lastGet' = [lastGet EXCEPT ![t] = JitteredDelay(CURRENT_DELAY, j)]
    /\ RATE_LIMIT_LOCK' = NoThread
    /\ rc' = [rc EXCEPT ![t] = Returned("get")]
    /\ UNCHANGED <<pipeVars, CURRENT_DELAY, RATE_LIMIT_COUNTER, calls, lastMut, prevMut>>

\* the caller sleeps on the value it got (time.sleep(delay)) and drops it
SleepOnDelay(t) ==
    /\ rc[t] = Returned("get")
    /\ lastGet' = [lastGet EXCEPT ![t] = NoDelay]
    /\ rc' = [rc EXCEPT ![t] = Idle]
    /\ UNCHANGED <<pipeVars, CURRENT_DELAY, RATE_LIMIT_COUNTER, RATE_LIMIT_LOCK, calls,
                   lastMut, prevMut>>

\* increase_rate_limit_delay, `RATE_LIMIT_COUNTER += 1` (line 52): the
\* read of the counter, a step of its own before the store
IncreaseLoad(t) ==
    /\ rc[t] = Inside("inc")
    /\ rc' = [rc EXCEPT ![t] = Loaded("inc", RATE_LIMIT_COUNTER)]
    /\ UNCHANGED <<pipeVars, CURRENT_DELAY, RATE_LIMIT_COUNTER, RATE_LIMIT_LOCK, lastGet,
                   calls, lastMut, prevMut>>

\* increase_rate_limit_delay: the store of the counter and the rest of the
\* body under the lock, return, release
IncreaseBody(t) ==
    /\ rc[t].op = "inc" /\ rc[t].st = "loaded"
    /\ RATE_LIMIT_COUNTER' = rc[t].tmp + 1
    /\ CURRENT_DELAY' = IncreasedDelay(CURRENT_DELAY)
    /\ prevMut' = lastMut
    /\ lastMut' = [op |-> "inc", before |-> CURRENT_DELAY, val |-> CURRENT_DELAY',
                   incs |-> lastMut.incs + 1]
    /\ RATE_LIMIT_LOCK' = NoThread
    /\ rc' = [rc EXCEPT ![t] = Idle]
    /\ UNCHANGED <<pipeVars, lastGet, calls>>

\* reset_rate_limit_delay: body under the lock, return, release
ResetBody(t) ==
    /\ rc[t] = Inside("reset")
    /\ CURRENT_DELAY' = DecayedDelay(CURRENT_DELAY)
    /\ prevMut' = lastMut
    /\ lastMut' = [op |-> "reset", before |-> CURRENT_DELAY, val |-> CURRENT_DELAY',
                   incs |-> lastMut.incs]
    /\ RATE_LIMIT_LOCK' = NoThread
    /\ rc' = [rc EXCEPT ![t] = Idle]
    /\ UNCHANGED <<pipeVars, RATE_LIMIT_COUNTER, lastGet, calls>>

\* A thread of the harness calls one of the three functions
CallController(t, op) ==
    /\ mode = "rate"
    /\ rc[t] = Idle
    /\ calls < MaxCalls
    /\ calls' = calls + 1
    /\ rc' = [rc EXCEPT ![t] = Waiting(op)]
    /\ UNCHANGED <<pipeVars, CURRENT_DELAY, RATE_LIMIT_COUNTER, RATE_LIMIT_LOCK, lastGet,
                   lastMut, prevMut>>

RateInit ==
    /\ CURRENT_DELAY = BASE_DELAY
    /\ RATE_LIMIT_COUNTER = 0
    /\ RATE_LIMIT_LOCK = NoThread
    /\ rc = [t \in ThreadIds |-> Idle]
    /\ lastGet = [t \in ThreadIds |-> NoDelay]
    /\ calls = 0
    /\ lastMut = NoMut
    /\ prevMut = NoMut

\* the module-level state of a fresh process
RateReset ==
    /\ CURRENT_DELAY' = BASE_DELAY
    /\ RATE_LIMIT_COUNTER' = 0
    /\ RATE_LIMIT_LOCK' = NoThread
    /\ rc' = [t \in ThreadIds |-> Idle]
    /\ lastGet' = [t \in ThreadIds |-> NoDelay]
    /\ calls' = 0
    /\ lastMut' = NoMut
    /\ prevMut' = NoMut

\* the steps of a get_adaptive_delay call and of the sleep on its value
DelayStep ==
    \E t \in ThreadIds :
        \/ LockAcquire(t)
        \/ GetAdaptiveDelayBody(t)
        \/ SleepOnDelay(t)

ControllerStep ==
    \/ DelayStep
    \/ \E t \in ThreadIds : IncreaseLoad(t)
    \/ \E t \in ThreadIds : IncreaseBody(t)
    \/ \E t \in ThreadIds : ResetBody(t)

\* no page is being extracted
ExtIdle ==
    /\ dom = <<>>
    /\ data = <<>>
    /\ csvCells = <<>>
    /\ epc = "idle"

RunIdle ==
    /\ argv_reset = FALSE
    /\ all_urls = <<>>
    /\ run = 1
    /\ csvFile = <<>>
    /\ ledgerFile = <<>>
    /\ opc = "idle"
    /\ scraped_urls = {}
    /\ total_to_process = 0
    /\ current_batch_start = 0
    /\ remaining_to_process = 0
    /\ batch_size = 0
    /\ current_batch_size = 0
    /\ max_workers = 0
    /\ completed = 0
    /\ urls_to_scrape = <<>>
    /\ tasks = <<>>
    /\ csv_lock = NoThread
    /\ dispatched = [r \in 1..MaxRuns |-> {}]
    /\ fate = [r \in 1..MaxRuns |-> [u \in URLS |-> "none"]]
    /\ startLedger = {}
    /\ killed = FALSE

\* no CAPTCHA is being handled
CaptchaIdle ==
    /\ cpc = "idle"
    /\ markers = {}
    /\ attempt = 0
    /\ polls = 0
    /\ lastReply = "none"
    /\ captcha_text = "none"
    /\ answers = 0
    /\ solverCalls = 0
    /\ captcha_result = "none"

\* no search page is being walked
WalkerIdle ==
    /\ wpc = "idle"
    /\ initial_url = 0
    /\ pages_to_visit = <<>>
    /\ visited_pages = {}
    /\ current_url = 0
    /\ page_count = 0
    /\ lastLoad = "none"
    /\ all_profile_links = {}
    /\ urlFile = <<>>
    /\ prevFile = <<>>
    /\ lastUrls = <<>>
    /\ prevUrls = <<>>
    /\ extracted = <<>>
    /\ wrun = 1

FinderIdle == CaptchaIdle /\ WalkerIdle

PipeIdle == RunIdle /\ ExtIdle /\ FinderIdle

----------------------------------------------------------------------------
(* The threaded file pipeline of profile_scraper.py *)

Range(q) == {q[i] : i \in 1..Len(q)}

\* every input list of 1..MaxLen URLs, repetitions included
UrlLists == UNION {[1..n -> URLS] : n \in 1..MaxLen}

\* what one fetch through the unlocker API can come back with
\* (fetch_with_bright_data, profile_scraper.py:129-163)
FetchOutcomes == {"ok", "HTTP ERROR 440 - Rate limited", "API Error: 404", "Exception: timeout"}

\* the _error that scrape_profile_with_bright_data puts in the record
\* (profile_scraper.py:1317-1322)
ErrorOf(outcome) == IF outcome = "ok" THEN "none" ELSE outcome

\* how an attempt ended, in the terms of the error taxonomy
FateOf(outcome) ==
    CASE outcome = "ok" -> "ok"
      [] outcome = "HTTP ERROR 440 - Rate limited" -> "rate_limit"
      [] outcome = "Exception: timeout" -> "timeout"
      [] outcome = "API Error: 404" -> "missing"

NewTask(p) == [idx |-> p, url |-> all_urls[p], pc |-> "queued", attempt |-> 0,
               page |-> "none", err |-> "none", trail |-> <<>>]

Done(i) == tasks[i].pc \in {"done", "raised"}
InFlight(i) == tasks[i].pc \notin {"queued", "done", "raised"}
TaskIds == 1..Len(tasks)

\* load_scraped_urls, profile_scraper.py:1214-1216
load_scraped_urls == Range(ledgerFile)

\* the row save_to_csv appends, profile_scraper.py:1176-1212: nothing for a
\* record that carries _error
CsvAlways(file, url, err) == Append(file, [url |-> url, ok |-> err = "none"])
CsvSkipped(file, url, err) == file
save_to_csv(file, url, err) ==
    IF err # "none" THEN file ELSE Append(file, [url |-> url, ok |-> TRUE])

\* save_scraped_url, profile_scraper.py:1218-1221
save_scraped_url(file, url) == Append(file, url)

SetFate(u, f) == fate' = [fate EXCEPT ![run][u] = f]

\* scrape_from_url_file up to the batch loop, profile_scraper.py:1450-1511,
\* with start_index = 0 and no limit
Startup ==
    /\ mode \in {"bright", "selenium"}
    /\ opc = "start"
    /\ scraped_urls' = load_scraped_urls
    /\ batch_size' = InitialBatchSize
    /\ LET remaining_urls == SelectSeq(all_urls, LAMBDA u : u \notin load_scraped_urls)
           total == Len(remaining_urls) - start_index
       IN  /\ total_to_process' = total
           /\ remaining_to_process' = total
           /\ opc' = IF total <= 0 THEN "done" ELSE "batch"
    /\ current_batch_start' = start_index
    /\ completed' = 0
    /\ csv_lock' = NoThread
    /\ UNCHANGED <<mode, finderVars, argVars, extVars, all_urls, run, durVars, current_batch_size, max_workers,
                   urls_to_scrape, tasks, histVars, rateVars>>

\* the positions of all_urls the batch covers, profile_scraper.py:1519-1526
BatchPositionsAll(start, size) ==
    SelectSeq([i \in 1..size |-> start + i], LAMBDA p : p <= Len(all_urls))
BatchPositions(start, size) ==
    SelectSeq([i \in 1..size |-> start + i],
              LAMBDA p : p <= Len(all_urls) /\ all_urls[p] \notin scraped_urls)

\* one turn of `while remaining_to_process > 0`: build the batch and submit
\* every URL of it to the pool, profile_scraper.py:1515-1537
BuildBatch ==
    /\ mode \in {"bright", "selenium"}
    /\ opc = "batch"
    /\ remaining_to_process > 0
    /\ current_batch_size' = Min(batch_size, remaining_to_process)
    /\ LET batch == BatchPositions(current_batch_start, current_batch_size')
       IN  /\ tasks' = [i \in 1..Len(batch) |-> NewTask(batch[i])]
           /\ dispatched' = [dispatched EXCEPT
                  ![run] = @ \cup {all_urls[batch[i]] : i \in 1..Len(batch)}]
    /\ opc' = "running"
    /\ UNCHANGED <<mode, finderVars, argVars, extVars, all_urls, run, durVars, scraped_urls, total_to_process,
                   current_batch_start, remaining_to_process, batch_size, max_workers,
                   completed, urls_to_scrape, csv_lock, fate, startLedger, killed, rateVars>>

\* the loop condition fails: the function returns, profile_scraper.py:1515, 1602
Finish ==
    /\ mode \in {"bright", "selenium"}
    /\ opc = "batch"
    /\ remaining_to_process <= 0
    /\ opc' = "done"
    /\ UNCHANGED <<mode, finderVars, argVars, extVars, all_urls, run, durVars, scraped_urls, total_to_process,
                   current_batch_start, remaining_to_process, batch_size,
                   current_batch_size, max_workers, completed, urls_to_scrape, taskVars, histVars,
                   rateVars>>

\* ThreadPoolExecutor(max_workers=max_workers), profile_scraper.py:1531: a
\* queued future starts only when one of the max_workers threads is idle
PoolUnbounded == TRUE
PoolHasRoom == Cardinality({j \in TaskIds : InFlight(j)}) < max_workers

\* a pool thread takes the next queued future (ThreadPoolExecutor: first in,
\* first out, at most max_workers at a time)
StartTask(i) ==
    /\ mode \in {"bright", "selenium"}
    /\ opc = "running"
    /\ i \in TaskIds
    /\ tasks[i].pc = "queued"
    /\ \A j \in 1..(i - 1) : tasks[j].pc # "queued"
    /\ PoolHasRoom
    /\ tasks' = [tasks EXCEPT ![i].pc = IF mode = "bright" THEN "check" ELSE "init"]
    /\ UNCHANGED <<mode, finderVars, argVars, extVars, all_urls, run, durVars, orchVars, csv_lock, histVars, rateVars>>

\* scrape_profile_worker: the already-scraped check, profile_scraper.py:1422-1426
WorkerCheck(i) ==
    /\ mode = "bright"
    /\ i \in TaskIds
    /\ tasks[i].pc = "check"
    /\ tasks' = [tasks EXCEPT ![i].pc =
                    IF tasks[i].url \in load_scraped_urls THEN "done" ELSE "fetch"]
    /\ UNCHANGED <<mode, finderVars, argVars, extVars, all_urls, run, durVars, orchVars, csv_lock, histVars, rateVars>>

\* scrape_profile_with_bright_data and the error test, profile_scraper.py:1431-1438
WorkerFetch(i, outcome) ==
    /\ mode = "bright"
    /\ i \in TaskIds
    /\ tasks[i].pc = "fetch"
    /\ tasks' = [tasks EXCEPT ![i].err = ErrorOf(outcome),
                              ![i].pc = IF ErrorOf(outcome) # "none" THEN "done"
                                        ELSE "lockwait"]
    /\ SetFate(tasks[i].url, FateOf(outcome))
    /\ UNCHANGED <<mode, finderVars, argVars, extVars, all_urls, run, durVars, orchVars, csv_lock, dispatched,
                   startLedger, killed, rateVars>>

\* csv_lock = threading.Lock(), profile_scraper.py:1452-1453: acquire
\* succeeds only while no worker holds the lock
CsvLockIgnored == TRUE
CsvLockFree == csv_lock = NoThread

\* `with csv_lock:` entry, profile_scraper.py:1441, 1873
WorkerLock(i) ==
    /\ i \in TaskIds
    /\ tasks[i].pc = "lockwait"
    /\ CsvLockFree
    /\ csv_lock' = i
    /\ tasks' = [tasks EXCEPT ![i].pc = "csv"]
    /\ UNCHANGED <<mode, finderVars, argVars, extVars, all_urls, run, durVars, orchVars, histVars, rateVars>>

\* save_to_csv(data), profile_scraper.py:1442, 1874, 1240
WorkerSaveCsv(i) ==
    /\ i \in TaskIds
    /\ tasks[i].pc = "csv"
    /\ csvFile' = save_to_csv(csvFile, tasks[i].url, tasks[i].err)
    /\ tasks' = [tasks EXCEPT ![i].pc = "ledger"]
    /\ UNCHANGED <<mode, finderVars, argVars, extVars, all_urls, run, ledgerFile, orchVars, csv_lock, histVars,
                   rateVars>>

\* save_scraped_url(url) and the end of the `with` block,
\* profile_scraper.py:1443-1445, 1875-1877, 1241
WorkerSaveUrl(i) ==
    /\ i \in TaskIds
    /\ tasks[i].pc = "ledger"
    /\ ledgerFile' = save_scraped_url(ledgerFile, tasks[i].url)
    /\ csv_lock' = NoThread
    /\ tasks' = [tasks EXCEPT ![i].pc = "done"]
    /\ UNCHANGED <<mode, finderVars, argVars, extVars, all_urls, run, csvFile, orchVars, histVars, rateVars>>

\* the append to the CSV or to the ledger fails with a write error (disk
\* full, permission): the exception leaves the `with csv_lock` block, is
\* caught by the worker's `except Exception` and the worker returns None,
\* profile_scraper.py:1441-1448
WorkerWriteError(i) ==
    /\ mode = "bright"
    /\ i \in TaskIds
    /\ tasks[i].pc \in {"csv", "ledger"}
    /\ csv_lock' = NoThread
    /\ tasks' = [tasks EXCEPT ![i].pc = "done"]
    /\ SetFate(tasks[i].url, "write_error")
    /\ UNCHANGED <<mode, finderVars, argVars, extVars, all_urls, run, durVars, orchVars, dispatched, startLedger,
                   killed, rateVars>>

\* what driver.get(url) can do on one load attempt (scrape_profile,
\* profile_scraper.py:185-217): raise, or leave one of these pages
LoadOutcomes == {"raise", "rate440", "content", "missing", "captcha"}

\* how a scrape_profile call ended, by the page it ended on
FateOfPage(page) ==
    CASE page = "content" -> "ok"
      [] page = "rate440" -> "rate_limit"
      [] page = "missing" -> "missing"
      [] page = "captcha" -> "captcha"
      [] page = "none" -> "timeout"

\* selenium_scrape_profile_worker: initialize_driver, before the try,
\* profile_scraper.py:1840-1841
WorkerInitDriver(i, ok) ==
    /\ mode = "selenium"
    /\ i \in TaskIds
    /\ tasks[i].pc = "init"
    /\ tasks' = [tasks EXCEPT ![i].pc = IF ok THEN "scheck" ELSE "raised"]
    /\ IF ok THEN UNCHANGED fate ELSE SetFate(tasks[i].url, "crash")
    /\ UNCHANGED <<mode, finderVars, argVars, extVars, all_urls, run, durVars, orchVars, csv_lock, dispatched,
                   startLedger, killed, rateVars>>

\* the already-scraped check, then worker_delay = get_adaptive_delay(),
\* profile_scraper.py:1844-1856
SeleniumCheck(i) ==
    /\ mode = "selenium"
    /\ i \in TaskIds
    /\ tasks[i].pc = "scheck"
    /\ IF tasks[i].url \in load_scraped_urls
       THEN /\ tasks' = [tasks EXCEPT ![i].pc = "done"]
            /\ UNCHANGED rc
       ELSE /\ tasks' = [tasks EXCEPT ![i].pc = "wdelay"]
            /\ rc' = [rc EXCEPT ![i] = Waiting("get")]
    /\ UNCHANGED <<mode, finderVars, argVars, extVars, all_urls, run, durVars, orchVars, csv_lock, histVars,
                   CURRENT_DELAY, RATE_LIMIT_COUNTER, RATE_LIMIT_LOCK, lastGet, calls,
                   lastMut, prevMut>>

\* scrape_profile is entered: adaptive_delay = get_adaptive_delay(),
\* profile_scraper.py:1859, 176-178
ScrapeProfileEnter(i) ==
    /\ i \in TaskIds
    /\ tasks[i].pc = "wdelay"
    /\ rc[i] = Idle
    /\ tasks' = [tasks EXCEPT ![i].pc = "spdelay"]
    /\ rc' = [rc EXCEPT ![i] = Waiting("get")]
    /\ UNCHANGED <<mode, finderVars, argVars, extVars, all_urls, run, durVars, orchVars, csv_lock, histVars,
                   CURRENT_DELAY, RATE_LIMIT_COUNTER, RATE_LIMIT_LOCK, lastGet, calls,
                   lastMut, prevMut>>

\* the page-load loop starts, profile_scraper.py:180-185
LoadLoopEnter(i) ==
    /\ i \in TaskIds
    /\ tasks[i].pc = "spdelay"
    /\ rc[i] = Idle
    /\ tasks' = [tasks EXCEPT ![i].pc = "load", ![i].attempt = 0]
    /\ UNCHANGED <<mode, finderVars, argVars, extVars, all_urls, run, durVars, orchVars, csv_lock, histVars, rateVars>>

\* one load attempt, profile_scraper.py:185-217
LoadPage(i, outcome) ==
    /\ i \in TaskIds
    /\ tasks[i].pc = "load"
    /\ CASE outcome = "raise" ->
              /\ tasks' = [tasks EXCEPT
                     ![i].attempt = IF @ < max_page_load_attempts - 1 THEN @ + 1 ELSE @,
                     ![i].pc = IF tasks[i].attempt < max_page_load_attempts - 1
                               THEN "load" ELSE "verify",
                     ![i].trail = Append(@, outcome)]
              /\ UNCHANGED rc
         [] outcome = "rate440" ->
              /\ tasks' = [tasks EXCEPT ![i].page = outcome, ![i].pc = "load_inc",
                                        ![i].trail = Append(@, outcome)]
              /\ rc' = [rc EXCEPT ![i] = Waiting("inc")]
         [] OTHER ->
              /\ tasks' = [tasks EXCEPT ![i].page = outcome, ![i].pc = "load_reset",
                                        ![i].trail = Append(@, outcome)]
              /\ rc' = [rc EXCEPT ![i] = Waiting("reset")]
    /\ UNCHANGED <<mode, finderVars, argVars, extVars, all_urls, run, durVars, orchVars, csv_lock, histVars,
                   CURRENT_DELAY, RATE_LIMIT_COUNTER, RATE_LIMIT_LOCK, lastGet, calls,
                   lastMut, prevMut>>

\* increase_rate_limit_delay has returned: back off and retry, or fall out
\* of the loop on the last attempt, profile_scraper.py:197-208
LoadAfterIncrease(i) ==
    /\ i \in TaskIds
    /\ tasks[i].pc = "load_inc"
    /\ rc[i] = Idle
    /\ tasks' = [tasks EXCEPT
           ![i].attempt = IF @ < max_page_load_attempts - 1 THEN @ + 1 ELSE @,
           ![i].pc = IF tasks[i].attempt < max_page_load_attempts - 1
                     THEN "load" ELSE "verify",
           ![i].trail = Append(@, "inc")]
    /\ UNCHANGED <<mode, finderVars, argVars, extVars, all_urls, run, durVars, orchVars, csv_lock, histVars, rateVars>>

\* reset_rate_limit_delay has returned: break, profile_scraper.py:204-208
LoadAfterReset(i) ==
    /\ i \in TaskIds
    /\ tasks[i].pc = "load_reset"
    /\ rc[i] = Idle
    /\ tasks' = [tasks EXCEPT ![i].pc = "verify", ![i].trail = Append(@, "reset")]
    /\ UNCHANGED <<mode, finderVars, argVars, extVars, all_urls, run, durVars, orchVars, csv_lock, histVars, rateVars>>

\* the pages served by the site itself, which can carry the
\* "Agree and close" button; the browser's own error page and an empty
\* window cannot
SitePages == {"content", "missing", "captcha"}

\* handle_age_verification(driver), the first call after the load loop
\* (profile_scraper.py:224-226): the "Agree and close" button is clicked
\* if the page has it and it is displayed (profile_finder.py:422-447)
HandleAgeVerification(i, banner) ==
    /\ i \in TaskIds
    /\ tasks[i].pc = "verify"
    /\ banner => tasks[i].page \in SitePages
    /\ tasks' = [tasks EXCEPT ![i].pc = IF banner THEN "agree_clicked" ELSE "no_banner"]
    /\ UNCHANGED <<mode, finderVars, argVars, extVars, all_urls, run, durVars, orchVars, csv_lock, histVars, rateVars>>

\* handle_captcha (twice at most), then the HTTP 440 test that returns the
\* record with _error, profile_scraper.py:227-268
VerifyPage(i, solved) ==
    /\ i \in TaskIds
    /\ tasks[i].pc \in {"agree_clicked", "no_banner"}
    /\ LET page == IF tasks[i].page = "captcha" /\ solved THEN "content"
                   ELSE tasks[i].page
       IN  IF page = "rate440"
           THEN /\ tasks' = [tasks EXCEPT ![i].page = page, ![i].pc = "sp_ret",
                                          ![i].err = "HTTP ERROR 440 - Rate limited",
                                          ![i].trail = Append(@, "record")]
                /\ SetFate(tasks[i].url, "rate_limit")
           ELSE /\ tasks' = [tasks EXCEPT ![i].page = page, ![i].pc = "extract"]
                /\ UNCHANGED fate
    /\ UNCHANGED <<mode, finderVars, argVars, extVars, all_urls, run, durVars, orchVars, csv_lock, dispatched,
                   startLedger, killed, rateVars>>

\* detection and extraction, profile_scraper.py:270-1163: the record comes
\* back without _error, or an exception escapes to the caller's except
ExtractData(i, raised) ==
    /\ i \in TaskIds
    /\ tasks[i].pc = "extract"
    /\ tasks' = [tasks EXCEPT ![i].pc = IF raised THEN "done" ELSE "sp_ret",
                              ![i].trail = Append(@, IF raised THEN "raise" ELSE "record")]
    /\ SetFate(tasks[i].url, IF raised THEN "crash" ELSE FateOfPage(tasks[i].page))
    /\ UNCHANGED <<mode, finderVars, argVars, extVars, all_urls, run, durVars, orchVars, csv_lock, dispatched,
                   startLedger, killed, rateVars>>

\* the record is back in the caller: the worker's rate-limit test
\* (profile_scraper.py:1862-1873) or scrape_single_profile's save
\* (profile_scraper.py:1237-1241)
RateLimitedAlways(err) == TRUE
RateLimitedRecord(err) == err = "HTTP ERROR 440 - Rate limited"
AfterScrapeProfile(i) ==
    /\ i \in TaskIds
    /\ tasks[i].pc = "sp_ret"
    /\ IF mode = "single"
       THEN /\ tasks' = [tasks EXCEPT ![i].pc = "csv"]
            /\ UNCHANGED rc
       ELSE IF RateLimitedRecord(tasks[i].err)
            THEN /\ tasks' = [tasks EXCEPT ![i].pc = "w_inc"]
                 /\ rc' = [rc EXCEPT ![i] = Waiting("inc")]
            ELSE /\ tasks' = [tasks EXCEPT ![i].pc = "lockwait"]
                 /\ UNCHANGED rc
    /\ UNCHANGED <<mode, finderVars, argVars, extVars, all_urls, run, durVars, orchVars, csv_lock, histVars,
                   CURRENT_DELAY, RATE_LIMIT_COUNTER, RATE_LIMIT_LOCK, lastGet, calls,
                   lastMut, prevMut>>

\* the worker's increase_rate_limit_delay has returned: return None,
\* profile_scraper.py:1866-1870
WorkerAfterIncrease(i) ==
    /\ i \in TaskIds
    /\ tasks[i].pc = "w_inc"
    /\ rc[i] = Idle
    /\ tasks' = [tasks EXCEPT ![i].pc = "done", ![i].trail = Append(@, "inc")]
    /\ UNCHANGED <<mode, finderVars, argVars, extVars, all_urls, run, durVars, orchVars, csv_lock, histVars, rateVars>>

\* scrape_single_profile up to scrape_profile, profile_scraper.py:1223-1237
SingleStart ==
    /\ mode = "single"
    /\ opc = "start"
    /\ IF all_urls[1] \in load_scraped_urls
       THEN /\ opc' = "done"
            /\ UNCHANGED <<tasks, rc, dispatched>>
       ELSE /\ opc' = "running"
            /\ tasks' = <<[NewTask(1) EXCEPT !.pc = "spdelay"]>>
            /\ rc' = [rc EXCEPT ![1] = Waiting("get")]
            /\ dispatched' = [dispatched EXCEPT ![run] = @ \cup {all_urls[1]}]
    /\ UNCHANGED <<mode, finderVars, argVars, extVars, all_urls, run, durVars, scraped_urls, total_to_process,
                   current_batch_start, remaining_to_process, batch_size,
                   current_batch_size, max_workers, completed, urls_to_scrape, csv_lock, fate,
                   startLedger, killed, CURRENT_DELAY, RATE_LIMIT_COUNTER,
                   RATE_LIMIT_LOCK, lastGet, calls, lastMut, prevMut>>

\* scrape_single_profile returns, profile_scraper.py:1243-1248
SingleEnd ==
    /\ mode = "single"
    /\ opc = "running"
    /\ \A i \in TaskIds : Done(i)
    /\ opc' = "done"
    /\ UNCHANGED <<mode, finderVars, argVars, extVars, all_urls, run, durVars, scraped_urls, total_to_process,
                   current_batch_start, remaining_to_process, batch_size,
                   current_batch_size, max_workers, completed, urls_to_scrape, taskVars, histVars,
                   rateVars>>

\* workers//2 and batch//2 with their floors, profile_scraper.py:1568-1577
HalvedNoFloor(w) == w \div 2
AdjustedWorkers(w) == IF Max(2, w \div 2) < w THEN Max(2, w \div 2) ELSE w
AdjustedBatch(b) == IF Max(10, b \div 2) < b THEN Max(10, b \div 2) ELSE b

\* the pool has drained: count the results and look at the rate-limit
\* counter, profile_scraper.py:1539-1577
AfterBatch ==
    /\ mode \in {"bright", "selenium"}
    /\ opc = "running"
    /\ \A i \in TaskIds : Done(i)
    /\ completed' = completed + Cardinality({i \in TaskIds : tasks[i].pc = "done"})
    /\ IF RATE_LIMIT_COUNTER > RateLimitThreshold
       THEN /\ max_workers' = AdjustedWorkers(max_workers)
            /\ batch_size' = AdjustedBatch(batch_size)
            /\ opc' = "reset_counter"
       ELSE /\ UNCHANGED <<max_workers, batch_size>>
            /\ opc' = "advance"
    /\ UNCHANGED <<mode, finderVars, argVars, extVars, all_urls, run, durVars, scraped_urls, total_to_process,
                   current_batch_start, remaining_to_process, current_batch_size,
                   urls_to_scrape, taskVars, histVars, rateVars>>

\* `with RATE_LIMIT_LOCK: RATE_LIMIT_COUNTER = 0`, profile_scraper.py:1584-1586
ResetCounter ==
    /\ opc = "reset_counter"
    /\ RATE_LIMIT_LOCK = NoThread
    /\ RATE_LIMIT_COUNTER' = 0
    /\ opc' = "advance"
    /\ UNCHANGED <<mode, finderVars, argVars, extVars, all_urls, run, durVars, scraped_urls, total_to_process,
                   current_batch_start, remaining_to_process, batch_size,
                   current_batch_size, max_workers, completed, urls_to_scrape, taskVars, histVars,
                   CURRENT_DELAY, RATE_LIMIT_LOCK, rc, lastGet, calls, lastMut, prevMut>>

\* move the cursor, reload the ledger, ask for the pause,
\* profile_scraper.py:1588-1597
Advance ==
    /\ opc = "advance"
    /\ current_batch_start' = current_batch_start + current_batch_size
    /\ remaining_to_process' = remaining_to_process - current_batch_size
    /\ scraped_urls' = load_scraped_urls
    /\ rc' = [rc EXCEPT ![MainThread] = Waiting("get")]
    /\ opc' = "pause"
    /\ UNCHANGED <<mode, finderVars, argVars, extVars, all_urls, run, durVars, total_to_process, batch_size,
                   current_batch_size, max_workers, completed, urls_to_scrape, taskVars, histVars,
                   CURRENT_DELAY, RATE_LIMIT_COUNTER, RATE_LIMIT_LOCK, lastGet, calls,
                   lastMut, prevMut>>

\* the pause between batches is over, profile_scraper.py:1597-1599
PauseOver ==
    /\ opc = "pause"
    /\ rc[MainThread] = Idle
    /\ opc' = "batch"
    /\ UNCHANGED <<mode, finderVars, argVars, extVars, all_urls, run, durVars, scraped_urls, total_to_process,
                   current_batch_start, remaining_to_process, batch_size,
                   current_batch_size, max_workers, completed, urls_to_scrape, taskVars, histVars,
                   rateVars>>

----------------------------------------------------------------------------
(* The asyncio pipeline of scraper.py (TrystScraper) *)

\* what one scrape_profile call can return (scraper.py:1125-1228): a record
\* without _error, or one whose _error is a network failure, a timeout or
\* a backend/extraction error.  A timeout is caught by the first
\* `except Exception` clause (scraper.py:1189-1209), which records
\* "Error: " + str(e); the `except asyncio.TimeoutError` clause behind it
\* (scraper.py:1211-1214) is never entered.
ScrapeOutcomes == {"ok", "Network error", "Error: timeout", "Scraping Browser error"}

\* scraper.py:1257: the result is final unless its _error says "Network error"
FinalAlways(err) == TRUE
FinalResult(err) == err = "none" \/ err # "Network error"

FateOfScrape(outcome) ==
    CASE outcome = "ok" -> "ok"
      [] outcome = "Network error" -> "network"
      [] outcome = "Error: timeout" -> "timeout"
      [] outcome = "Scraping Browser error" -> "missing"

\* _load_scraped_urls, scraper.py:212-217: the non-blank lines
tryst_load_scraped_urls == {u \in Range(ledgerFile) : u \in URLS}

\* the row _save_profile_data appends, scraper.py:229-255
SaveOnlySuccess(file, url, err) ==
    IF err # "none" THEN file ELSE Append(file, [url |-> url, ok |-> TRUE])
save_profile_data(file, url, err) == Append(file, [url |-> url, ok |-> err = "none"])

\* the orders list(set(urls)) can come out in
Orderings(S) ==
    {q \in [1..Cardinality(S) -> S] : \A i, j \in 1..Cardinality(S) : i # j => q[i] # q[j]}

\* the record one scrape_profile call returns, scraper.py:268-1218: the
\* input url always; on success the extracted fields and, because the
\* success path returns at line 1187 before _process_time is set at
\* lines 1220-1222, no _process_time; on a failure the _error with the
\* message of the failure; no exception leaves the call
NoRecord == [url |-> 0, error |-> "none", fields |-> FALSE, process_time |-> FALSE,
             raised |-> FALSE]
ScrapeProfileRaising(url, outcome) ==
    [url |-> url, error |-> "none", fields |-> outcome = "ok", process_time |-> FALSE,
     raised |-> outcome # "ok"]
ScrapeProfileRecord(url, outcome) ==
    [url |-> url, error |-> ErrorOf(outcome), fields |-> outcome = "ok",
     process_time |-> FALSE, raised |-> FALSE]

NewCoroutine(q, p) == [idx |-> p, url |-> q[p], pc |-> "created", attempt |-> 0,
                       page |-> "none", err |-> "none", trail |-> <<>>,
                       rec |-> NoRecord]

\* TrystScraper.__init__, scraper.py:173-210
TrystConstruct ==
    /\ mode \in {"tryst", "tryst_batch"}
    /\ opc = "start"
    /\ scraped_urls' = tryst_load_scraped_urls
    /\ opc' = "constructed"
    /\ UNCHANGED <<mode, finderVars, argVars, extVars, all_urls, run, durVars, total_to_process, current_batch_start,
                   remaining_to_process, batch_size, current_batch_size, max_workers,
                   completed, urls_to_scrape, taskVars, histVars, rateVars>>

\* scrape_all up to the batch loop, scraper.py:1324-1355
ScrapeAllStart(unique_urls) ==
    /\ mode = "tryst"
    /\ opc = "constructed"
    /\ urls_to_scrape' = SelectSeq(unique_urls, LAMBDA u : u \notin scraped_urls)
    /\ total_to_process' = Len(urls_to_scrape')
    /\ batch_size' = DEFAULT_BATCH_SIZE
    /\ current_batch_start' = 0
    /\ opc' = IF Len(urls_to_scrape') = 0 THEN "done" ELSE "batch"
    /\ UNCHANGED <<mode, finderVars, argVars, extVars, all_urls, run, durVars, scraped_urls, remaining_to_process,
                   current_batch_size, max_workers, completed, taskVars, histVars,
                   rateVars>>

\* scrape_batch: filter, create the coroutines and gather them,
\* scraper.py:1287-1304
BatchNoFilter(batch) == batch
BatchFilter(batch) == SelectSeq(batch, LAMBDA u : u \notin scraped_urls)

\* one turn of the batch loop of scrape_all, scraper.py:1358-1366
ScrapeAllBatch ==
    /\ mode = "tryst"
    /\ opc = "batch"
    /\ current_batch_start < total_to_process
    /\ LET batch_end == Min(current_batch_start + batch_size, total_to_process)
           batch == SubSeq(urls_to_scrape, current_batch_start + 1, batch_end)
           todo == BatchFilter(batch)
       IN  /\ tasks' = [i \in 1..Len(todo) |-> NewCoroutine(todo, i)]
           /\ dispatched' = [dispatched EXCEPT ![run] = @ \cup Range(todo)]
           /\ opc' = "gather"
    /\ UNCHANGED <<mode, finderVars, argVars, extVars, all_urls, run, durVars, scraped_urls, total_to_process,
                   current_batch_start, remaining_to_process, batch_size,
                   current_batch_size, max_workers, completed, urls_to_scrape,
                   csv_lock, fate, startLedger, killed, rateVars>>

\* the batch loop of scrape_all is over, scraper.py:1358, 1393-1402
ScrapeAllFinish ==
    /\ mode = "tryst"
    /\ opc = "batch"
    /\ current_batch_start >= total_to_process
    /\ opc' = "done"
    /\ UNCHANGED <<mode, finderVars, argVars, extVars, all_urls, run, durVars, scraped_urls, total_to_process,
                   current_batch_start, remaining_to_process, batch_size,
                   current_batch_size, max_workers, completed, urls_to_scrape,
                   taskVars, histVars, rateVars>>

\* scrape_batch called on the input list itself, scraper.py:1276-1304
ScrapeBatchStart ==
    /\ mode = "tryst_batch"
    /\ opc = "constructed"
    /\ LET todo == BatchFilter(all_urls)
       IN  /\ urls_to_scrape' = todo
           /\ tasks' = [i \in 1..Len(todo) |-> NewCoroutine(todo, i)]
           /\ dispatched' = [dispatched EXCEPT ![run] = @ \cup Range(todo)]
           /\ opc' = IF Len(todo) = 0 THEN "done" ELSE "gather"
    /\ UNCHANGED <<mode, finderVars, argVars, extVars, all_urls, run, durVars, scraped_urls, total_to_process,
                   current_batch_start, remaining_to_process, batch_size,
                   current_batch_size, max_workers, completed, csv_lock, fate,
                   startLedger, killed, rateVars>>

\* the event loop runs one coroutine at a time: nothing else runs while a
\* coroutine is between its CSV write and its ledger write
LoopFree == \A j \in TaskIds : tasks[j].pc # "track"

\* `async with semaphore` and scrape_profile_with_retries up to its first
\* await, scraper.py:1298-1255
CoroutineStart(i) ==
    /\ opc = "gather"
    /\ i \in TaskIds
    /\ LoopFree
    /\ tasks[i].pc = "created"
    /\ \A j \in 1..(i - 1) : tasks[j].pc # "created"
    /\ Cardinality({j \in TaskIds : InFlight(j) /\ tasks[j].pc # "created"}) < max_workers
    /\ tasks' = [tasks EXCEPT
           ![i].pc = IF tasks[i].url \in scraped_urls THEN "done" ELSE "scraping",
           ![i].err = IF tasks[i].url \in scraped_urls THEN "Already processed" ELSE "none",
           ![i].attempt = 1]
    /\ UNCHANGED <<mode, finderVars, argVars, extVars, all_urls, run, durVars, orchVars, csv_lock, histVars, rateVars>>

\* for attempt in range(1, self.max_retries + 1), scraper.py:1246: there is
\* another turn after this attempt
RetriesLeftOffByOne(a) == a <= MAX_RETRIES
RetriesLeft(a) == a < MAX_RETRIES

\* scrape_profile returns to scrape_profile_with_retries: save and track,
\* or go round the retry loop, or give up after max_retries and save the
\* error record, scraper.py:1246-1274
ScrapeResult(i, outcome) ==
    /\ opc = "gather"
    /\ i \in TaskIds
    /\ LoopFree
    /\ tasks[i].pc = "scraping"
    /\ SetFate(tasks[i].url, FateOfScrape(outcome))
    /\ LET result == ScrapeProfileRecord(tasks[i].url, outcome)
           seen == [tasks EXCEPT ![i].rec = result, ![i].trail = Append(@, outcome)]
       IN  IF ~result.raised /\ FinalResult(result.error)
           THEN /\ csvFile' = save_profile_data(csvFile, result.url, result.error)
                /\ tasks' = [seen EXCEPT ![i].pc = "track", ![i].err = result.error]
           ELSE IF RetriesLeft(tasks[i].attempt)
                THEN /\ tasks' = [seen EXCEPT ![i].attempt = @ + 1, ![i].err = outcome]
                     /\ UNCHANGED csvFile
                ELSE /\ csvFile' = save_profile_data(csvFile, tasks[i].url,
                                                     "Failed after attempts")
                     /\ tasks' = [seen EXCEPT ![i].pc = "track",
                                              ![i].err = "Failed after attempts"]
    /\ UNCHANGED <<mode, finderVars, argVars, extVars, all_urls, run, ledgerFile, orchVars, csv_lock, dispatched,
                   startLedger, killed, rateVars>>

\* self.scraped_urls.add(url), scraper.py:266
TrackedFileOnly(set, url) == set
TrackedSet(set, url) == set \cup {url}

\* _track_scraped_url, scraper.py:257-266
CoroutineTrack(i) ==
    /\ opc = "gather"
    /\ i \in TaskIds
    /\ tasks[i].pc = "track"
    /\ ledgerFile' = Append(ledgerFile, tasks[i].url)
    /\ scraped_urls' = TrackedSet(scraped_urls, tasks[i].url)
    /\ tasks' = [tasks EXCEPT ![i].pc = "done"]
    /\ UNCHANGED <<mode, finderVars, argVars, extVars, all_urls, run, csvFile, opc, total_to_process,
                   current_batch_start, remaining_to_process, batch_size,
                   current_batch_size, max_workers, completed, urls_to_scrape, csv_lock,
                   histVars, rateVars>>

\* asyncio.gather has every result: scrape_batch returns,
\* scraper.py:1304-1322, 1366-1391
GatherDone ==
    /\ opc = "gather"
    /\ \A i \in TaskIds : Done(i)
    /\ IF mode = "tryst"
       THEN /\ opc' = "batch"
            /\ current_batch_start' = current_batch_start + batch_size
       ELSE /\ opc' = "done"
            /\ UNCHANGED current_batch_start
    /\ UNCHANGED <<mode, finderVars, argVars, extVars, all_urls, run, durVars, scraped_urls, total_to_process,
                   remaining_to_process, batch_size, current_batch_size, max_workers,
                   completed, urls_to_scrape, taskVars, histVars, rateVars>>

\* the process is killed: everything in memory is gone, the files stay
Kill ==
    /\ opc \in {"start", "batch", "running", "reset_counter", "advance", "pause",
               "constructed", "gather"}
    /\ run < MaxRuns
    /\ opc' = "killed"
    /\ tasks' = <<>>
    /\ csv_lock' = NoThread
    /\ RateReset
    /\ UNCHANGED <<mode, finderVars, argVars, extVars, all_urls, run, durVars, scraped_urls, total_to_process,
                   current_batch_start, remaining_to_process, batch_size,
                   current_batch_size, max_workers, completed, urls_to_scrape, histVars>>

\* the program is started again on the same files
Restart ==
    /\ opc \in {"done", "killed"}
    /\ run < MaxRuns
    /\ run' = run + 1
    /\ killed' = (opc = "killed")
    /\ startLedger' = Range(ledgerFile)
    /\ opc' = "start"
    /\ scraped_urls' = {}
    /\ total_to_process' = 0
    /\ current_batch_start' = 0
    /\ remaining_to_process' = 0
    /\ batch_size' = 0
    /\ current_batch_size' = 0
    /\ completed' = 0
    /\ urls_to_scrape' = <<>>
    /\ tasks' = <<>>
    /\ csv_lock' = NoThread
    /\ RateReset
    /\ argv_reset' = FALSE
    /\ UNCHANGED <<mode, finderVars, extVars, all_urls, durVars, max_workers, dispatched, fate>>

\* reset_progress, profile_scraper.py:1643-1656: both files are removed
ResetKeeps(file) == file
reset_progress(file) == <<>>

\* the program is started again with --reset: main calls reset_progress
\* before anything else, profile_scraper.py:1664-1666
MainReset ==
    /\ mode \in {"bright", "selenium", "single"}
    /\ opc \in {"done", "killed"}
    /\ run < MaxRuns
    /\ run' = run + 1
    /\ argv_reset' = TRUE
    /\ killed' = (opc = "killed")
    /\ csvFile' = reset_progress(csvFile)
    /\ ledgerFile' = reset_progress(ledgerFile)
    /\ startLedger' = Range(ledgerFile')
    /\ opc' = "start"
    /\ scraped_urls' = {}
    /\ total_to_process' = 0
    /\ current_batch_start' = 0
    /\ remaining_to_process' = 0
    /\ batch_size' = 0
    /\ current_batch_size' = 0
    /\ completed' = 0
    /\ urls_to_scrape' = <<>>
    /\ tasks' = <<>>
    /\ csv_lock' = NoThread
    /\ RateReset
    /\ UNCHANGED <<mode, finderVars, extVars, all_urls, max_workers, dispatched, fate>>

PipeInit ==
    /\ ExtIdle
    /\ FinderIdle
    /\ argv_reset = FALSE
    /\ all_urls \in UrlLists
    /\ run = 1
    /\ csvFile = <<>>
    /\ ledgerFile = <<>>
    /\ opc = "start"
    /\ scraped_urls = {}
    /\ total_to_process = 0
    /\ current_batch_start = 0
    /\ remaining_to_process = 0
    /\ batch_size = 0
    /\ current_batch_size = 0
    /\ max_workers \in WorkerChoices
    /\ completed = 0
    /\ urls_to_scrape = <<>>
    /\ tasks = <<>>
    /\ csv_lock = NoThread
    /\ dispatched = [r \in 1..MaxRuns |-> {}]
    /\ fate = [r \in 1..MaxRuns |-> [u \in URLS |-> "none"]]
    /\ startLedger = {}
    /\ killed = FALSE

InitBright == mode = "bright" /\ RateInit /\ PipeInit

NextBright ==
    \/ Startup
    \/ BuildBatch
    \/ Finish
    \/ \E i \in 1..MaxLen : StartTask(i)
    \/ \E i \in 1..MaxLen : WorkerCheck(i)
    \/ \E i \in 1..MaxLen, o \in FetchOutcomes : WorkerFetch(i, o)
    \/ \E i \in 1..MaxLen : WorkerLock(i)
    \/ \E i \in 1..MaxLen : WorkerSaveCsv(i)
    \/ \E i \in 1..MaxLen : WorkerSaveUrl(i)
    \/ AfterBatch
    \/ Advance
    \/ DelayStep
    \/ PauseOver
    \/ Kill
    \/ Restart

SpecBright == InitBright /\ [][NextBright]_vars

\* the same pipeline in one run of the process, the appends to the two
\* files being able to fail
NextBrightWrite ==
    \/ Startup
    \/ BuildBatch
    \/ Finish
    \/ \E i \in 1..MaxLen : StartTask(i)
    \/ \E i \in 1..MaxLen : WorkerCheck(i)
    \/ \E i \in 1..MaxLen, o \in FetchOutcomes : WorkerFetch(i, o)
    \/ \E i \in 1..MaxLen : WorkerLock(i)
    \/ \E i \in 1..MaxLen : WorkerSaveCsv(i)
    \/ \E i \in 1..MaxLen : WorkerSaveUrl(i)
    \/ \E i \in 1..MaxLen : WorkerWriteError(i)
    \/ AfterBatch
    \/ Advance
    \/ DelayStep
    \/ PauseOver

SpecBrightWrite == InitBright /\ [][NextBrightWrite]_vars

\* the same pipeline, a finished or killed run being followed by a run
\* that is started with --reset
NextBrightReset ==
    \/ Startup
    \/ BuildBatch
    \/ Finish
    \/ \E i \in 1..MaxLen : StartTask(i)
    \/ \E i \in 1..MaxLen : WorkerCheck(i)
    \/ \E i \in 1..MaxLen, o \in FetchOutcomes : WorkerFetch(i, o)
    \/ \E i \in 1..MaxLen : WorkerLock(i)
    \/ \E i \in 1..MaxLen : WorkerSaveCsv(i)
    \/ \E i \in 1..MaxLen : WorkerSaveUrl(i)
    \/ AfterBatch
    \/ Advance
    \/ DelayStep
    \/ PauseOver
    \/ Kill
    \/ MainReset

SpecBrightReset == InitBright /\ [][NextBrightReset]_vars

ScrapeProfileStep ==
    \/ \E i \in 1..MaxLen : LoadLoopEnter(i)
    \/ \E i \in 1..MaxLen, o \in LoadOutcomes : LoadPage(i, o)
    \/ \E i \in 1..MaxLen : LoadAfterIncrease(i)
    \/ \E i \in 1..MaxLen : LoadAfterReset(i)
    \/ \E i \in 1..MaxLen, banner \in BOOLEAN : HandleAgeVerification(i, banner)
    \/ \E i \in 1..MaxLen, solved \in BOOLEAN : VerifyPage(i, solved)
    \/ \E i \in 1..MaxLen, raised \in BOOLEAN : ExtractData(i, raised)
    \/ \E i \in 1..MaxLen : AfterScrapeProfile(i)

InitSelenium ==
    /\ mode = "selenium" /\ RateInit /\ PipeInit
    /\ Len(all_urls) <= MaxLenSelenium

NextSelenium ==
    \/ Startup
    \/ BuildBatch
    \/ Finish
    \/ \E i \in 1..MaxLen : StartTask(i)
    \/ \E i \in 1..MaxLen, ok \in BOOLEAN : WorkerInitDriver(i, ok)
    \/ \E i \in 1..MaxLen : SeleniumCheck(i)
    \/ \E i \in 1..MaxLen : ScrapeProfileEnter(i)
    \/ ScrapeProfileStep
    \/ \E i \in 1..MaxLen : WorkerAfterIncrease(i)
    \/ \E i \in 1..MaxLen : WorkerLock(i)
    \/ \E i \in 1..MaxLen : WorkerSaveCsv(i)
    \/ \E i \in 1..MaxLen : WorkerSaveUrl(i)
    \/ AfterBatch
    \/ ResetCounter
    \/ Advance
    \/ ControllerStep
    \/ PauseOver

SpecSelenium == InitSelenium /\ [][NextSelenium]_vars

InitSingle ==
    /\ mode = "single" /\ RateInit /\ PipeInit
    /\ Len(all_urls) = 1

NextSingle ==
    \/ SingleStart
    \/ ScrapeProfileStep
    \/ \E i \in 1..MaxLen : WorkerSaveCsv(i)
    \/ \E i \in 1..MaxLen : WorkerSaveUrl(i)
    \/ SingleEnd
    \/ ControllerStep
    \/ Kill
    \/ Restart

SpecSingle == InitSingle /\ [][NextSingle]_vars

TrystStep ==
    \/ TrystConstruct
    \/ \E i \in 1..MaxLen : CoroutineStart(i)
    \/ \E i \in 1..MaxLen, o \in ScrapeOutcomes : ScrapeResult(i, o)
    \/ \E i \in 1..MaxLen : CoroutineTrack(i)
    \/ GatherDone
    \/ Kill
    \/ Restart

InitTryst == mode = "tryst" /\ RateInit /\ PipeInit

NextTryst ==
    \/ \E q \in Orderings(Range(all_urls)) : ScrapeAllStart(q)
    \/ ScrapeAllBatch
    \/ ScrapeAllFinish
    \/ TrystStep

SpecTryst == InitTryst /\ [][NextTryst]_vars

InitTrystBatch == mode = "tryst_batch" /\ RateInit /\ PipeInit

NextTrystBatch ==
    \/ ScrapeBatchStart
    \/ TrystStep

SpecTrystBatch == InitTrystBatch /\ [][NextTrystBatch]_vars

\* the two per-item loops side by side: the retry loop of TrystScraper and
\* the page-load loop of scrape_profile
InitAttempts == InitTryst \/ InitSingle

NextAttempts == NextTryst \/ NextSingle

SpecAttempts == InitAttempts /\ [][NextAttempts]_vars

\* the threaded pipeline and the asyncio pipeline side by side, each with
\* its kills and restarts
InitPersist == InitBright \/ InitTryst

NextPersist == NextBright \/ NextTryst

SpecPersist == InitPersist /\ [][NextPersist]_vars

InitRate == mode = "rate" /\ RateInit /\ PipeIdle

NextRate ==
    \/ ControllerStep
    \/ \E t \in Callers, op \in {"get", "inc", "reset"} : CallController(t, op)

SpecRate == InitRate /\ [][NextRate]_vars

----------------------------------------------------------------------------
(* Strings of the extraction code.  A label is the sequence of its        *)
(* characters.  A value is a sequence of pieces of text: a piece is one   *)
(* character (" ", "J", the obfuscation glyph) or a longer run of         *)
(* characters that no test of the code looks into ("jane", a domain, an   *)
(* error-page phrase).                                                     *)

\* the placeholder character of an obfuscated value, U+25CF
Glyph == "(black circle)"
\* how the URL serializer writes the glyph in what link.href returns
PercentEncodedGlyph == "%E2%97%8F"

\* querySelector / select_one found no element; None
NoElement == <<"(none)">>
\* the empty string, which a CSV cell shows as None does
NoValue == <<>>

\* Python and JavaScript truthiness of a value
Truthy(v) == v # NoValue /\ v # NoElement

\* `k in s`, s.includes(k) on characters
IsInfix(k, s) == \E i \in 0..(Len(s) - Len(k)) : SubSeq(s, i + 1, i + Len(k)) = k
\* s.startswith(k)
StartsWith(s, k) == Len(k) <= Len(s) /\ SubSeq(s, 1, Len(k)) = k
\* `piece in s`, s.includes(piece) on the pieces of a value
Includes(s, piece) == \E i \in 1..Len(s) : s[i] = piece

\* str.strip(), String.trim()
RECURSIVE Strip(_)
Strip(s) ==
    IF s = <<>> THEN s
    ELSE IF Head(s) = " " THEN Strip(Tail(s))
    ELSE IF s[Len(s)] = " " THEN Strip(SubSeq(s, 1, Len(s) - 1))
    ELSE s

\* str.lower(), String.toLowerCase()
LowerChar(c) ==
    CASE c = "A" -> "a"
      [] c = "B" -> "b"
      [] c = "C" -> "c"
      [] c = "D" -> "d"
      [] c = "E" -> "e"
      [] c = "F" -> "f"
      [] c = "G" -> "g"
      [] c = "H" -> "h"
      [] c = "I" -> "i"
      [] c = "J" -> "j"
      [] c = "K" -> "k"
      [] c = "L" -> "l"
      [] c = "M" -> "m"
      [] c = "N" -> "n"
      [] c = "O" -> "o"
      [] c = "P" -> "p"
      [] c = "Q" -> "q"
      [] c = "R" -> "r"
      [] c = "S" -> "s"
      [] c = "T" -> "t"
      [] c = "U" -> "u"
      [] c = "V" -> "v"
      [] c = "W" -> "w"
      [] c = "X" -> "x"
      [] c = "Y" -> "y"
      [] c = "Z" -> "z"
      [] OTHER -> c
Lower(s) == [i \in 1..Len(s) |-> LowerChar(s[i])]

\* len() of a piece and of a value
PieceLen(p) == IF p \in {" ", "J", "/", Glyph} THEN 1 ELSE 4
RECURSIVE TextLen(_)
TextLen(s) == IF s = <<>> THEN 0 ELSE PieceLen(Head(s)) + TextLen(Tail(s))

\* the keys of the data dictionary (profile_scraper.py:238-253,
\* 1299-1314; scraper.py:281-296), as Python strings
DataKeys == {"url", "name", "email", "phone", "mobile", "whatsapp", "linktree",
             "website", "onlyfans", "fansly", "twitter", "instagram", "snapchat", "telegram"}
ContactFields == DataKeys \ {"url", "name"}

\* the characters of each key, and of "x", the key of the X platform
Chars ==
       "url" :> <<"u", "r", "l">>
    @@ "name" :> <<"n", "a", "m", "e">>
    @@ "email" :> <<"e", "m", "a", "i", "l">>
    @@ "phone" :> <<"p", "h", "o", "n", "e">>
    @@ "mobile" :> <<"m", "o", "b", "i", "l", "e">>
    @@ "whatsapp" :> <<"w", "h", "a", "t", "s", "a", "p", "p">>
    @@ "linktree" :> <<"l", "i", "n", "k", "t", "r", "e", "e">>
    @@ "website" :> <<"w", "e", "b", "s", "i", "t", "e">>
    @@ "onlyfans" :> <<"o", "n", "l", "y", "f", "a", "n", "s">>
    @@ "fansly" :> <<"f", "a", "n", "s", "l", "y">>
    @@ "twitter" :> <<"t", "w", "i", "t", "t", "e", "r">>
    @@ "instagram" :> <<"i", "n", "s", "t", "a", "g", "r", "a", "m">>
    @@ "snapchat" :> <<"s", "n", "a", "p", "c", "h", "a", "t">>
    @@ "telegram" :> <<"t", "e", "l", "e", "g", "r", "a", "m">>
    @@ "x" :> <<"x">>

\* the marker of the renamed platform in a label
FormerlyTwitter == <<"f", "o", "r", "m", "e", "r", "l", "y", " ", "t", "w", "i", "t", "t", "e", "r">>
FormerlyTwitterParen == <<"(", "f", "o", "r", "m", "e", "r", "l", "y", " ", "t", "w", "i", "t", "t", "e", "r", ")">>

\* labels of the contact panel, as the page shows them
LabelEmail == <<"E", "m", "a", "i", "l">>
LabelWhatsapp == <<"W", "h", "a", "t", "s", "a", "p", "p">>
LabelX == <<"X", " ", "(", "f", "o", "r", "m", "e", "r", "l", "y", " ", "T", "w", "i", "t", "t", "e", "r", ")">>
LabelOnlyFans == <<"O", "n", "l", "y", "F", "a", "n", "s">>
LabelFax == <<"F", "a", "x">>
Labels == {LabelEmail, LabelWhatsapp, LabelX, LabelOnlyFans, LabelFax}

\* the order field_mapping.items() yields its pairs in
\* (profile_scraper.py:1084-1098, 1371-1385)
field_mapping ==
    << <<"email", "email">>, <<"mobile", "mobile">>, <<"phone", "phone">>,
       <<"whatsapp", "whatsapp">>, <<"twitter", "twitter">>, <<"x", "twitter">>,
       <<"instagram", "instagram">>, <<"linktree", "linktree">>,
       <<"onlyfans", "onlyfans">>, <<"fansly", "fansly">>,
       <<"snapchat", "snapchat">>, <<"telegram", "telegram">>,
       <<"website", "website">> >>

\* `for key, data_field in field_mapping.items(): if key in js_field: ...
\* break` (profile_scraper.py:1118-1122, 1387-1391): the field of the first
\* key that occurs in the label, "none" if no key does
MappedField(js_field) ==
    LET hits == {k \in 1..Len(field_mapping) : IsInfix(Chars[field_mapping[k][1]], js_field)}
    IN  IF hits = {} THEN "none"
        ELSE field_mapping[CHOOSE k \in hits : \A h \in hits : k <= h][2]

\* a dict as the sequence of its items in insertion order
Get(d, k) == IF \E i \in 1..Len(d) : d[i][1] = k
             THEN d[CHOOSE i \in 1..Len(d) : d[i][1] = k][2] ELSE NoValue
Put(d, k, v) == IF \E i \in 1..Len(d) : d[i][1] = k
                THEN [i \in 1..Len(d) |-> IF d[i][1] = k THEN <<k, v>> ELSE d[i]]
                ELSE Append(d, <<k, v>>)

\* link.href and get_attribute("href") return the serialized URL: a
\* character outside ASCII comes back percent-encoded
UrlSerialize(href) ==
    [i \in 1..Len(href) |-> IF href[i] = Glyph THEN PercentEncodedGlyph ELSE href[i]]

\* the hyperlink targets the pages are built from
HrefOnlyFans == <<"https://", "onlyfans.com", "/", "jane">>
HrefObfuscated == <<"https://", "onlyfans.com", "/", Glyph, Glyph>>
HrefShowButton == <<"javascript:", "void(0)">>

\* the first position of hrefs whose target contains one of the domains,
\* 0 if there is none (`a[href*=...]`, contains(@href, ...))
FirstLink(hrefs, domains) ==
    LET hits == {i \in 1..Len(hrefs) : \E dm \in domains : Includes(hrefs[i], dm)}
    IN  IF hits = {} THEN 0 ELSE CHOOSE i \in hits : \A h \in hits : i <= h

\* element.textContent of the value cell: the span's text, then the rest
TextContent(row) == (IF row.span = NoElement THEN <<>> ELSE row.span) \o row.text

\* every <a href> of the document, the links of the contact rows first
AllAnchors(d) ==
    SelectSeq([i \in 1..Len(d.rows) |-> d.rows[i].href], LAMBDA h : h # NoElement)
        \o d.anchors

EmptyData == [k \in DataKeys |-> IF k = "url" THEN <<"U">> ELSE NoValue]

----------------------------------------------------------------------------
(* profile_scraper.scrape_profile: the extraction of the browser-driven    *)
(* path                                                                    *)

\* Method 3 of the detection block, profile_scraper.py:307-318
SeleniumName(heading) ==
    IF heading # NoValue /\ TextLen(heading) > 3 THEN Strip(heading) ELSE NoValue

\* extractAllContactData, the label of a row, profile_scraper.py:959-960
SeleniumLabel(row) ==
    LET label == Lower(Strip(row.label))
    IN  IF IsInfix(FormerlyTwitterParen, label) THEN Chars["twitter"] ELSE label

\* extractAllContactData, the value of a row, profile_scraper.py:962-994
SeleniumValue(row, label) ==
    IF row.show
    THEN IF row.span # NoElement /\ ~Includes(row.span, Glyph)
         THEN Strip(row.span) ELSE NoValue
    ELSE IF row.span # NoElement /\ ~Includes(row.span, Glyph)
         THEN Strip(row.span)
         ELSE IF /\ row.href # NoElement
                 /\ ~IsInfix(Chars["email"], label) /\ ~IsInfix(Chars["mobile"], label)
                 /\ ~IsInfix(Chars["phone"], label) /\ ~IsInfix(Chars["whatsapp"], label)
              THEN UrlSerialize(row.href)
              ELSE LET text == Strip(TextContent(row))
                   IN  IF ~Includes(text, Glyph) /\ TextLen(text) > 2
                       THEN text ELSE NoValue

\* the loop over the contact rows, profile_scraper.py:951-997
RECURSIVE SeleniumRows(_, _)
SeleniumRows(rows, d) ==
    IF rows = <<>> THEN d
    ELSE LET label == SeleniumLabel(Head(rows))
             value == SeleniumValue(Head(rows), label)
         IN  SeleniumRows(Tail(rows), IF Truthy(value) THEN Put(d, label, value) ELSE d)

\* socialPlatforms and the type each one is stored under,
\* profile_scraper.py:1000, 1007-1008
SeleniumPlatforms ==
    << <<"onlyfans.com", "onlyfans">>, <<"instagram.com", "instagram">>,
       <<"twitter.com", "twitter">>, <<"x.com", "twitter">>, <<"fansly.com", "fansly">> >>

\* the first platform of the list the target contains, 0 if none
FirstPlatform(href, platforms) ==
    LET hits == {p \in 1..Len(platforms) : Includes(href, platforms[p][1])}
    IN  IF hits = {} THEN 0 ELSE CHOOSE p \in hits : \A h \in hits : p <= h

\* the scan of every link for social platforms, profile_scraper.py:999-1014
RECURSIVE SeleniumSocial(_, _)
SeleniumSocial(hrefs, d) ==
    IF hrefs = <<>> THEN d
    ELSE LET href == UrlSerialize(Head(hrefs))
             p == FirstPlatform(href, SeleniumPlatforms)
         IN  SeleniumSocial(Tail(hrefs),
                 IF p # 0 /\ ~Truthy(Get(d, Chars[SeleniumPlatforms[p][2]]))
                 THEN Put(d, Chars[SeleniumPlatforms[p][2]], href) ELSE d)

\* the test that skips an error message, profile_scraper.py:1108-1116
SkipsErrorMessage(value) ==
    \/ Includes(value, "An error occurred")
    \/ Includes(value, "Please try again")
    \/ Includes(value, "This page isn't working")
    \/ Strip(value) = <<"Error">>

\* the mapping of the script's result onto the record,
\* profile_scraper.py:1100-1122
RECURSIVE ApplyMapping(_, _)
ApplyMapping(items, dt) ==
    IF items = <<>> THEN dt
    ELSE LET js_field == Head(items)[1]
             value == Head(items)[2]
             data_field == MappedField(js_field)
         IN  ApplyMapping(Tail(items),
                 IF StartsWith(js_field, <<"_">>) \/ SkipsErrorMessage(value)
                    \/ data_field = "none"
                 THEN dt ELSE [dt EXCEPT ![data_field] = value])

\* the backup scan of one platform, profile_scraper.py:1124-1150
BackupLink(dt, field, domains, hrefs) ==
    IF ~Truthy(dt[field]) /\ FirstLink(hrefs, domains) # 0
    THEN [dt EXCEPT ![field] = UrlSerialize(hrefs[FirstLink(hrefs, domains)])]
    ELSE dt

\* the record scrape_profile returns for a page, profile_scraper.py:238-1163
SeleniumRecord(d) ==
    LET contact_data == SeleniumSocial(AllAnchors(d), SeleniumRows(d.rows, <<>>))
        mapped == ApplyMapping(contact_data,
                               [EmptyData EXCEPT !["name"] = SeleniumName(d.heading)])
        b1 == BackupLink(mapped, "onlyfans", {"onlyfans.com"}, AllAnchors(d))
        b2 == BackupLink(b1, "twitter", {"twitter.com", "x.com"}, AllAnchors(d))
    IN  BackupLink(b2, "instagram", {"instagram.com"}, AllAnchors(d))

----------------------------------------------------------------------------
(* scrape_profile_with_bright_data: the extraction from the fetched HTML   *)

\* profile_scraper.py:1327-1335
BrightName(heading) == IF Strip(heading) # NoValue THEN Strip(heading) ELSE NoValue

\* profile_scraper.py:1351-1353
BrightLabel(row) ==
    LET label == Lower(Strip(row.label))
    IN  IF IsInfix(FormerlyTwitter, label) THEN Chars["twitter"] ELSE label

\* the value of a row: the span if it shows no glyph, else the target of
\* the cell's link as the HTML has it, profile_scraper.py:1355-1368
BrightValue(row, label) ==
    LET value == IF row.span # NoElement /\ ~Includes(row.span, Glyph)
                 THEN Strip(row.span) ELSE NoValue
    IN  IF ~Truthy(value) /\ row.href # NoElement
           /\ ~StartsWith(label, Chars["email"]) /\ ~StartsWith(label, Chars["phone"])
           /\ ~StartsWith(label, Chars["mobile"]) /\ ~StartsWith(label, Chars["whatsapp"])
        THEN row.href ELSE value

\* the loop over the contact rows, profile_scraper.py:1339-1395
RECURSIVE BrightRows(_, _)
BrightRows(rows, dt) ==
    IF rows = <<>> THEN dt
    ELSE LET label == BrightLabel(Head(rows))
             value == BrightValue(Head(rows), label)
             field == MappedField(label)
         IN  BrightRows(Tail(rows),
                 IF Truthy(value) /\ field # "none"
                 THEN [dt EXCEPT ![field] = value] ELSE dt)

\* the fallback scan, profile_scraper.py:1397-1412
BrightPlatforms ==
    << <<"onlyfans.com", "onlyfans">>, <<"twitter.com", "twitter">>,
       <<"x.com", "twitter">>, <<"instagram.com", "instagram">>,
       <<"fansly.com", "fansly">>, <<"linktree", "linktree">>,
       <<"snapchat.com", "snapchat">>, <<"t.me", "telegram">> >>

RECURSIVE BrightFallback(_, _, _)
BrightFallback(platforms, hrefs, dt) ==
    IF platforms = <<>> THEN dt
    ELSE LET field == Head(platforms)[2]
             k == FirstLink(hrefs, {Head(platforms)[1]})
         IN  BrightFallback(Tail(platforms), hrefs,
                 IF ~Truthy(dt[field]) /\ k # 0
                 THEN [dt EXCEPT ![field] = hrefs[k]] ELSE dt)

\* the record scrape_profile_with_bright_data returns for a fetched page,
\* profile_scraper.py:1299-1417
BrightRecord(d) ==
    BrightFallback(BrightPlatforms, AllAnchors(d),
                   BrightRows(d.rows, [EmptyData EXCEPT !["name"] = BrightName(d.heading)]))

----------------------------------------------------------------------------
(* TrystScraper.scrape_profile: the extraction script and the copy of its  *)
(* result into the record                                                  *)

\* scraper.py:1019-1027
TrystName(heading) == IF Strip(heading) # NoValue THEN Strip(heading) ELSE NoValue

\* scraper.py:1041-1042
TrystLabel(row) ==
    LET label == Lower(Strip(row.label))
    IN  IF IsInfix(FormerlyTwitter, label) THEN Chars["twitter"] ELSE label

\* scraper.py:1044-1060
TrystValue(row, label) ==
    LET value == IF row.span # NoElement /\ ~Includes(row.span, Glyph)
                 THEN Strip(row.span) ELSE NoValue
    IN  IF /\ ~Truthy(value)
           /\ label \notin {Chars["email"], Chars["phone"], Chars["mobile"],
                            Chars["whatsapp"]}
           /\ row.href # NoElement
           /\ ~StartsWith(UrlSerialize(row.href), <<"javascript:">>)
        THEN UrlSerialize(row.href) ELSE value

\* scraper.py:1032-1067
RECURSIVE TrystRows(_, _)
TrystRows(rows, d) ==
    IF rows = <<>> THEN d
    ELSE LET label == TrystLabel(Head(rows))
             value == TrystValue(Head(rows), label)
         IN  TrystRows(Tail(rows), IF Truthy(value) THEN Put(d, label, value) ELSE d)

\* scraper.py:1070-1080
TrystPlatforms ==
    << <<"onlyfans.com", "onlyfans">>, <<"twitter.com", "twitter">>,
       <<"x.com", "twitter">>, <<"instagram.com", "instagram">>,
       <<"fansly.com", "fansly">>, <<"linktree", "linktree">>,
       <<"linktr.ee", "linktree">>, <<"snapchat.com", "snapchat">>,
       <<"t.me", "telegram">> >>

\* the first platform the target contains whose key has no value yet,
\* scraper.py:1084-1085
FirstFreePlatform(href, d) ==
    LET hits == {p \in 1..Len(TrystPlatforms) :
                    /\ Includes(href, TrystPlatforms[p][1])
                    /\ ~Truthy(Get(d, Chars[TrystPlatforms[p][2]]))}
    IN  IF hits = {} THEN 0 ELSE CHOOSE p \in hits : \A h \in hits : p <= h

\* "Fix doubled URLs", scraper.py:1086-1092: a target in which the domain
\* occurs twice is rebuilt from what follows its last occurrence
FixDoubled(href, domain) ==
    LET at == {i \in 1..Len(href) : href[i] = domain}
    IN  IF Cardinality(at) > 1
        THEN <<"https://", domain>>
                 \o SubSeq(href, (CHOOSE i \in at : \A j \in at : j <= i) + 1, Len(href))
        ELSE href

\* scraper.py:1082-1096
RECURSIVE TrystSocial(_, _)
TrystSocial(hrefs, d) ==
    IF hrefs = <<>> THEN d
    ELSE LET href == UrlSerialize(Head(hrefs))
             p == FirstFreePlatform(href, d)
         IN  TrystSocial(Tail(hrefs),
                 IF p = 0 THEN d
                 ELSE Put(d, Chars[TrystPlatforms[p][2]],
                          FixDoubled(href, TrystPlatforms[p][1])))

\* `if key in data and value: data[key] = value`, scraper.py:1167-1172
RECURSIVE TrystCopy(_, _)
TrystCopy(items, dt) ==
    IF items = <<>> THEN dt
    ELSE LET key == Head(items)[1]
             value == Head(items)[2]
         IN  TrystCopy(Tail(items),
                 IF (\E k \in DataKeys : Chars[k] = key) /\ Truthy(value)
                 THEN [dt EXCEPT ![CHOOSE k \in DataKeys : Chars[k] = key] = value]
                 ELSE dt)

\* the record for a page the script ran on, scraper.py:1010-1188
TrystRecord(d) ==
    LET named == IF Truthy(TrystName(d.heading))
                 THEN <<<<Chars["name"], TrystName(d.heading)>>>> ELSE <<>>
        extracted_data == TrystSocial(AllAnchors(d), TrystRows(d.rows, named))
    IN  TrystCopy(extracted_data, EmptyData)

----------------------------------------------------------------------------
(* The row each pipeline stores for a record                               *)

\* "Filter out common error messages from any field",
\* profile_scraper.py:1183-1192
IsErrorMessage(value) ==
    \/ Includes(value, "This page isn't working")
    \/ Includes(value, "An error occurred")
    \/ Includes(value, "Please try again")
    \/ Strip(value) = <<"Error">>

\* the cells save_to_csv writes, profile_scraper.py:1183-1211
SaveToCsvCells(dt) == [k \in DataKeys |-> IF IsErrorMessage(dt[k]) THEN NoValue ELSE dt[k]]

\* the cells _save_profile_data writes, scraper.py:229-255
SaveProfileDataCells(dt) == dt

----------------------------------------------------------------------------
(* The extraction of one page and the row stored for it                    *)

\* the pages the extractors are run on
Spans == {NoElement, <<"jane">>, <<Glyph, Glyph>>, <<"An error occurred">>,
          <<" ", "Error", " ">>}
Hrefs == {NoElement, HrefOnlyFans, HrefObfuscated, HrefShowButton}
Texts == {<<>>, <<"jane">>, <<"J">>, <<Glyph, Glyph>>}
Headings == {NoValue, <<"jane">>, <<"An error occurred">>}
ContactRows == [label : Labels, show : BOOLEAN, span : Spans, href : Hrefs, text : Texts]
Doms == [heading : Headings,
         rows : UNION {[1..n -> ContactRows] : n \in 0..MaxRows},
         anchors : UNION {[1..n -> {HrefOnlyFans, HrefObfuscated}] : n \in 0..MaxAnchors}]

ExtractModes == {"extract_selenium", "extract_bright", "extract_tryst"}

\* scrape_profile on the loaded page, profile_scraper.py:238-1163
SeleniumExtract ==
    /\ mode = "extract_selenium"
    /\ epc = "page"
    /\ data' = SeleniumRecord(dom)
    /\ epc' = "extracted"
    /\ UNCHANGED <<mode, finderVars, argVars, dom, csvCells, all_urls, run, durVars, orchVars,
                   taskVars, histVars, rateVars>>

\* scrape_profile_with_bright_data on the fetched page,
\* profile_scraper.py:1324-1417
BrightExtract ==
    /\ mode = "extract_bright"
    /\ epc = "page"
    /\ data' = BrightRecord(dom)
    /\ epc' = "extracted"
    /\ UNCHANGED <<mode, finderVars, argVars, dom, csvCells, all_urls, run, durVars, orchVars,
                   taskVars, histVars, rateVars>>

\* TrystScraper.scrape_profile on the page of the remote browser,
\* scraper.py:1010-1188
TrystExtract ==
    /\ mode = "extract_tryst"
    /\ epc = "page"
    /\ data' = TrystRecord(dom)
    /\ epc' = "extracted"
    /\ UNCHANGED <<mode, finderVars, argVars, dom, csvCells, all_urls, run, durVars, orchVars,
                   taskVars, histVars, rateVars>>

\* save_to_csv(data): the fields are cleared in the record itself before
\* the row is written, profile_scraper.py:1176-1211
SaveToCsv ==
    /\ mode \in {"extract_selenium", "extract_bright"}
    /\ epc = "extracted"
    /\ data' = SaveToCsvCells(data)
    /\ csvCells' = SaveToCsvCells(data)
    /\ epc' = "saved"
    /\ UNCHANGED <<mode, finderVars, argVars, dom, all_urls, run, durVars, orchVars, taskVars,
                   histVars, rateVars>>

\* _save_profile_data(result), scraper.py:229-255
SaveProfileData ==
    /\ mode = "extract_tryst"
    /\ epc = "extracted"
    /\ csvCells' = SaveProfileDataCells(data)
    /\ epc' = "saved"
    /\ UNCHANGED <<mode, finderVars, argVars, dom, data, all_urls, run, durVars, orchVars,
                   taskVars, histVars, rateVars>>

InitExtract ==
    /\ mode \in ExtractModes
    /\ RateInit
    /\ RunIdle
    /\ FinderIdle
    /\ dom \in Doms
    /\ data = EmptyData
    /\ csvCells = EmptyData
    /\ epc = "page"

NextExtract ==
    \/ SeleniumExtract
    \/ BrightExtract
    \/ TrystExtract
    \/ SaveToCsv
    \/ SaveProfileData

SpecExtract == InitExtract /\ [][NextExtract]_vars

----------------------------------------------------------------------------
(* The CAPTCHA handling of profile_finder.py (handle_captcha,              *)
(* solve_image_text_captcha) and the solver round trip of both modules     *)
(* (solve_captcha_with_2captcha_imagetotext).                              *)

\* max_attempts of the poll loop
FinderMaxAttempts == 15
ScraperMaxAttempts == 20
max_attempts == IF mode = "captcha_scraper" THEN ScraperMaxAttempts ELSE FinderMaxAttempts

\* the two strings handle_captcha looks for in driver.page_source:
\* "You're Almost There" and "security check", profile_finder.py:395
Markers == {"almost_there", "security_check"}

\* what the service can answer to createTask and to getTaskResult
CreateReplies == {"http_error", "unparsable", "error_id", "no_task_id", "task_id",
                  "exception"}
PollReplies == {"http_error", "unparsable", "error_id", "processing", "ready_text",
                "ready_empty", "exception"}

\* the replies after which the poll loop goes on: profile_finder.py catches
\* everything inside the loop (218-260), scraper.py only tests the HTTP
\* status there and leaves the rest to the outer except (112-144)
PollAgain(reply) ==
    IF mode = "captcha_scraper"
    THEN reply \in {"http_error", "processing"}
    ELSE reply \in {"http_error", "unparsable", "processing", "exception"}

\* the loop counter after one pass: range(max_attempts) in
\* profile_finder.py:206, attempts += 1 in scraper.py:101-102
NextAttemptUncounted(a, reply) == IF reply \in {"http_error", "unparsable"} THEN a ELSE a + 1
NextAttempt(a, reply) == a + 1

\* handle_captcha is entered: the marker test, profile_finder.py:386-401
HandleCaptchaEnter ==
    /\ mode = "captcha_finder"
    /\ cpc = "enter"
    /\ IF markers # {}
       THEN cpc' = "create" /\ solverCalls' = solverCalls + 1
       ELSE cpc' = "agree" /\ UNCHANGED solverCalls
    /\ UNCHANGED <<markers, attempt, polls, lastReply, captcha_text, answers,
                   captcha_result>>
    /\ UNCHANGED <<mode, walkerVars, argVars, extVars, all_urls, run, durVars, orchVars,
                   taskVars, histVars, rateVars>>

\* no marker: the consent button is clicked when it is there, and True is
\* returned either way, profile_finder.py:403-420
HandleCaptchaAgree ==
    /\ cpc = "agree"
    /\ cpc' = "returned"
    /\ captcha_result' = "True"
    /\ UNCHANGED <<markers, attempt, polls, lastReply, captcha_text, answers, solverCalls>>
    /\ UNCHANGED <<mode, walkerVars, argVars, extVars, all_urls, run, durVars, orchVars,
                   taskVars, histVars, rateVars>>

\* createTask, profile_finder.py:159-193, scraper.py:73-94
SolverCreate(reply) ==
    /\ cpc = "create"
    /\ lastReply' = reply
    /\ IF reply = "task_id"
       THEN cpc' = "poll" /\ attempt' = 0 /\ UNCHANGED captcha_text
       ELSE cpc' = "solved" /\ captcha_text' = "None" /\ UNCHANGED attempt
    /\ UNCHANGED <<markers, polls, answers, solverCalls, captcha_result>>
    /\ UNCHANGED <<mode, walkerVars, argVars, extVars, all_urls, run, durVars, orchVars,
                   taskVars, histVars, rateVars>>

\* one pass of the poll loop, profile_finder.py:206-260, scraper.py:101-138;
\* the request counter is capped one past the loop bound
SolverPoll(reply) ==
    /\ cpc = "poll"
    /\ attempt < max_attempts
    /\ polls <= max_attempts
    /\ polls' = polls + 1
    /\ lastReply' = reply
    /\ IF PollAgain(reply)
       THEN /\ attempt' = NextAttempt(attempt, reply)
            /\ UNCHANGED <<cpc, captcha_text>>
       ELSE /\ cpc' = "solved"
            /\ captcha_text' = IF reply = "ready_text" THEN "text" ELSE "None"
            /\ UNCHANGED attempt
    /\ UNCHANGED <<markers, answers, solverCalls, captcha_result>>
    /\ UNCHANGED <<mode, walkerVars, argVars, extVars, all_urls, run, durVars, orchVars,
                   taskVars, histVars, rateVars>>

\* the loop is over without an answer, profile_finder.py:262-263,
\* scraper.py:140-141
SolverTimeout ==
    /\ cpc = "poll"
    /\ attempt >= max_attempts
    /\ cpc' = "solved"
    /\ captcha_text' = "None"
    /\ UNCHANGED <<markers, attempt, polls, lastReply, answers, solverCalls,
                   captcha_result>>
    /\ UNCHANGED <<mode, walkerVars, argVars, extVars, all_urls, run, durVars, orchVars,
                   taskVars, histVars, rateVars>>

\* solve_image_text_captcha after the solver: no text, return False
\* (profile_finder.py:296-299); else look for the input field (301-327)
\* and type the text into it (329-332)
EnterText(found) ==
    /\ mode = "captcha_finder"
    /\ cpc = "solved"
    /\ IF captcha_text = "text" /\ found
       THEN cpc' = "button" /\ UNCHANGED captcha_result
       ELSE cpc' = "returned" /\ captcha_result' = "False"
    /\ UNCHANGED <<markers, attempt, polls, lastReply, captcha_text, answers, solverCalls>>
    /\ UNCHANGED <<mode, walkerVars, argVars, extVars, all_urls, run, durVars, orchVars,
                   taskVars, histVars, rateVars>>

\* the ways the typed text is sent, profile_finder.py:334-372
SubmitWays == {"click", "js_click", "click_failed", "enter_key", "no_button"}

\* the Unlock button is clicked (or Enter is sent) and the site answers
\* with a page of its choice; a failed click returns False at once
SubmitAnswer(how, page) ==
    /\ cpc = "button"
    /\ how \in SubmitWays
    /\ page \subseteq Markers
    /\ CASE how \in {"click", "js_click", "enter_key"} ->
              /\ answers' = answers + 1
              /\ markers' = page
              /\ cpc' = "recheck"
              /\ UNCHANGED captcha_result
         [] how = "no_button" ->
              /\ page = markers
              /\ cpc' = "recheck"
              /\ UNCHANGED <<answers, markers, captcha_result>>
         [] how = "click_failed" ->
              /\ page = markers
              /\ cpc' = "returned"
              /\ captcha_result' = "False"
              /\ UNCHANGED <<answers, markers>>
    /\ UNCHANGED <<attempt, polls, lastReply, captcha_text, solverCalls>>
    /\ UNCHANGED <<mode, walkerVars, argVars, extVars, all_urls, run, durVars, orchVars,
                   taskVars, histVars, rateVars>>

\* the page is looked at again, profile_finder.py:355-358, 374-384
RecheckPage ==
    /\ cpc = "recheck"
    /\ cpc' = "returned"
    /\ captcha_result' = IF "almost_there" \notin markers THEN "True" ELSE "False"
    /\ UNCHANGED <<markers, attempt, polls, lastReply, captcha_text, answers, solverCalls>>
    /\ UNCHANGED <<mode, walkerVars, argVars, extVars, all_urls, run, durVars, orchVars,
                   taskVars, histVars, rateVars>>

InitCaptcha ==
    /\ mode \in {"captcha_finder", "captcha_scraper"}
    /\ RateInit
    /\ RunIdle
    /\ ExtIdle
    /\ WalkerIdle
    /\ markers \in SUBSET Markers
    /\ cpc = IF mode = "captcha_finder" THEN "enter" ELSE "create"
    /\ solverCalls = IF mode = "captcha_finder" THEN 0 ELSE 1
    /\ attempt = 0
    /\ polls = 0
    /\ lastReply = "none"
    /\ captcha_text = "none"
    /\ answers = 0
    /\ captcha_result = "none"

NextCaptcha ==
    \/ HandleCaptchaEnter
    \/ HandleCaptchaAgree
    \/ \E reply \in CreateReplies : SolverCreate(reply)
    \/ \E reply \in PollReplies : SolverPoll(reply)
    \/ SolverTimeout
    \/ \E found \in BOOLEAN : EnterText(found)
    \/ \E how \in SubmitWays, page \in SUBSET Markers : SubmitAnswer(how, page)
    \/ RecheckPage

SpecCaptcha == InitCaptcha /\ [][NextCaptcha]_vars

----------------------------------------------------------------------------
(* The pagination walker of profile_finder.py (load_all_profiles) and the  *)
(* URL file it keeps (load_saved_urls, save_urls).  Search pages are       *)
(* numbered; page 1 is base_url.                                           *)

Pages == 1..NumPages
base_url == 1

\* --start-page=N, profile_finder.py:795-808, 822-826: the first page or a
\* later one
StartPages == {base_url, base_url + 1}

\* what profile_urls.txt can hold when the program starts: nothing, or
\* lines in any order, repeated or not
UrlFiles == UNION {[1..n -> URLS] : n \in 0..NumUrls}

\* sorted(combined_urls): the elements of S in ascending order
RECURSIVE SortedSeq(_)
SortedSeq(S) ==
    IF S = {} THEN <<>>
    ELSE LET least == CHOOSE x \in S : \A y \in S : x <= y
         IN  <<least>> \o SortedSeq(S \ {least})

\* load_saved_urls, profile_finder.py:761-763: the set of the file's lines
load_saved_urls(file) == {file[k] : k \in 1..Len(file)}

\* save_urls, profile_finder.py:765-774: the file is written anew with the
\* union of its lines and urls, sorted
SaveOverwrite(file, urls) == SortedSeq(urls)
save_urls(file, urls) == SortedSeq(load_saved_urls(file) \cup urls)

\* what extract_pagination_links can return, profile_finder.py:545-619: the
\* target of the Next link, or the page-number links sorted and without
\* duplicates
PaginationLinks == {SortedSeq(S) : S \in SUBSET Pages}

\* the links of pagination_links that go to the end of the queue, one by
\* one, profile_finder.py:725-727
AppendAll(links, visited, queue) == queue \o links
RECURSIVE AppendNew(_, _, _)
AppendNew(links, visited, queue) ==
    IF links = <<>> THEN queue
    ELSE AppendNew(Tail(links), visited,
                   IF Head(links) \notin visited /\ Head(links) \notin Range(queue)
                   THEN Append(queue, Head(links)) ELSE queue)

\* load_all_profiles up to the loop, profile_finder.py:621-645: the first
\* page is loaded, and the function returns False when that fails
WalkerStart(loaded) ==
    /\ wpc = "start"
    /\ IF loaded
       THEN /\ wpc' = "loop"
            /\ pages_to_visit' = <<initial_url>>
       ELSE /\ wpc' = "failed"
            /\ UNCHANGED pages_to_visit
    /\ UNCHANGED <<initial_url, visited_pages, current_url, page_count, lastLoad,
                   all_profile_links, urlFile, prevFile, lastUrls, prevUrls, extracted,
                   wrun>>
    /\ UNCHANGED <<mode, captchaVars, argVars, extVars, all_urls, run, durVars, orchVars,
                   taskVars, histVars, rateVars>>

\* the head of the loop, profile_finder.py:647-659: the loop ends on an
\* empty queue, a visited URL is dropped, any other URL is counted
WalkerPop ==
    /\ wpc = "loop"
    /\ IF pages_to_visit = <<>>
       THEN /\ wpc' = "finished"
            /\ UNCHANGED <<pages_to_visit, current_url, page_count, lastLoad>>
       ELSE /\ current_url' = Head(pages_to_visit)
            /\ pages_to_visit' = Tail(pages_to_visit)
            /\ lastLoad' = "none"
            /\ IF current_url' \in visited_pages
               THEN UNCHANGED <<wpc, page_count>>
               ELSE /\ page_count' = page_count + 1
                    /\ wpc' = IF current_url' # base_url \/ page_count' > 1
                              THEN "load" ELSE "visit"
    /\ UNCHANGED <<initial_url, visited_pages, all_profile_links, urlFile, prevFile,
                   lastUrls, prevUrls, extracted, wrun>>
    /\ UNCHANGED <<mode, captchaVars, argVars, extVars, all_urls, run, durVars, orchVars,
                   taskVars, histVars, rateVars>>

\* load_page_and_handle_challenges(driver, current_url), and `continue`
\* when it fails, profile_finder.py:667-671
WalkerLoad(loaded) ==
    /\ wpc = "load"
    /\ wpc' = IF loaded THEN "visit" ELSE "loop"
    /\ lastLoad' = IF loaded THEN "ok" ELSE "failed"
    /\ UNCHANGED <<initial_url, pages_to_visit, visited_pages, current_url, page_count,
                   all_profile_links, urlFile, prevFile, lastUrls, prevUrls, extracted,
                   wrun>>
    /\ UNCHANGED <<mode, captchaVars, argVars, extVars, all_urls, run, durVars, orchVars,
                   taskVars, histVars, rateVars>>

\* the rest of the loop body, profile_finder.py:673-730: the page is marked
\* visited, its profile links are added and saved when there are any, and
\* its pagination links are queued
WalkerVisit(page_links, pagination_links) ==
    /\ wpc = "visit"
    /\ page_links \subseteq URLS
    /\ pagination_links \in PaginationLinks
    /\ visited_pages' = visited_pages \cup {current_url}
    /\ extracted' = [extracted EXCEPT ![current_url] = @ + 1]
    /\ IF page_links # {}
       THEN /\ all_profile_links' = all_profile_links \cup page_links
            /\ urlFile' = save_urls(urlFile, all_profile_links')
            /\ prevFile' = urlFile
            /\ prevUrls' = lastUrls
            /\ lastUrls' = <<all_profile_links'>>
       ELSE UNCHANGED <<all_profile_links, urlFile, prevFile, prevUrls, lastUrls>>
    /\ pages_to_visit' = AppendNew(pagination_links, visited_pages', pages_to_visit)
    /\ wpc' = "loop"
    /\ UNCHANGED <<initial_url, current_url, page_count, lastLoad, wrun>>
    /\ UNCHANGED <<mode, captchaVars, argVars, extVars, all_urls, run, durVars, orchVars,
                   taskVars, histVars, rateVars>>

\* the state of load_all_profiles in a fresh process started at page p,
\* profile_finder.py:785-832, 621-634
WalkerFresh(p) ==
    /\ initial_url' = p
    /\ page_count' = p - 1
    /\ wpc' = "start"
    /\ pages_to_visit' = <<>>
    /\ visited_pages' = {}
    /\ current_url' = 0
    /\ lastLoad' = "none"
    /\ all_profile_links' = {}
    /\ extracted' = [q \in Pages |-> 0]

\* the program is run again over the same URL file
WalkerRestart(p) ==
    /\ mode = "walker"
    /\ wpc \in {"finished", "failed"}
    /\ wrun < MaxRuns
    /\ wrun' = wrun + 1
    /\ p \in StartPages
    /\ WalkerFresh(p)
    /\ UNCHANGED <<urlFile, prevFile, lastUrls, prevUrls>>
    /\ UNCHANGED <<mode, captchaVars, argVars, extVars, all_urls, run, durVars, orchVars,
                   taskVars, histVars, rateVars>>

InitWalker ==
    /\ mode = "walker"
    /\ RateInit
    /\ RunIdle
    /\ ExtIdle
    /\ CaptchaIdle
    /\ initial_url \in StartPages
    /\ page_count = initial_url - 1
    /\ wpc = "start"
    /\ pages_to_visit = <<>>
    /\ visited_pages = {}
    /\ current_url = 0
    /\ lastLoad = "none"
    /\ all_profile_links = {}
    /\ extracted = [q \in Pages |-> 0]
    /\ urlFile \in UrlFiles
    /\ prevFile = urlFile
    /\ lastUrls = <<>>
    /\ prevUrls = <<>>
    /\ wrun = 1

NextWalker ==
    \/ \E loaded \in BOOLEAN : WalkerStart(loaded)
    \/ WalkerPop
    \/ \E loaded \in BOOLEAN : WalkerLoad(loaded)
    \/ \E page_links \in SUBSET URLS, pagination_links \in PaginationLinks :
           WalkerVisit(page_links, pagination_links)
    \/ \E p \in StartPages : WalkerRestart(p)

SpecWalker == InitWalker /\ [][NextWalker]_vars

----------------------------------------------------------------------------
(* The error taxonomy: how an attempt on a URL ended *)
Transient == {"rate_limit", "timeout", "network"}
Terminal == {"missing"}

RowsOf(u) == {k \in 1..Len(csvFile) : csvFile[k].url = u}
LinesOf(u) == {k \in 1..Len(ledgerFile) : ledgerFile[k] = u}
AddedThisRun == Range(ledgerFile) \ startLedger
PendingAtStart == Range(all_urls) \ startLedger

(* C1: in a second run over the same list and the persisted ledger, no URL *)
(* that succeeded or terminally failed in the first run is handed to a     *)
(* worker again.                                                           *)
Idempotence ==
    (run = 2 /\ ~killed) =>
        \A u \in URLS : fate[1][u] \in {"ok"} \cup Terminal => u \notin dispatched[2]

(* C2: within a run, whatever the interleaving of the workers and also     *)
(* when the input holds a URL more than once, a URL gets at most one CSV   *)
(* row and at most one ledger entry.                                       *)
AtMostOncePersistence ==
    run = 1 =>
        \A u \in URLS : Cardinality(RowsOf(u)) <= 1 /\ Cardinality(LinesOf(u)) <= 1

(* C3: a URL whose attempt ended in a transient failure is not added to    *)
(* the ledger in that run, also once the retry cap is used up.             *)
TransientNeverMarked ==
    \A u \in URLS : fate[run][u] \in Transient => u \notin AddedThisRun

(* C4: once a worker is through with a URL whose attempt ended in a        *)
(* terminal failure, the CSV holds an error-flagged row for the URL and    *)
(* the ledger holds the URL.                                               *)
TerminalFailureRecorded ==
    \A i \in TaskIds :
        (Done(i) /\ fate[run][tasks[i].url] \in Terminal) =>
            /\ \E k \in RowsOf(tasks[i].url) : ~csvFile[k].ok
            /\ tasks[i].url \in Range(ledgerFile)

(* C5: every URL in the ledger file has a row in the CSV.                  *)
LedgerEntryHasRow ==
    \A u \in Range(ledgerFile) : RowsOf(u) # {}

(* C6: after a kill, the restarted run has exactly the URLs that are not   *)
(* in the ledger as pending, and has handed every one of them to a worker  *)
(* by the time it returns.                                                 *)
NoDataLossOnCrash ==
    (run = 2 /\ killed /\ opc = "done") =>
        /\ Cardinality(PendingAtStart) <= Len(all_urls) - Cardinality(startLedger)
        /\ PendingAtStart \subseteq dispatched[run]

(* C7: a run returns only after every input URL that was not in the ledger *)
(* at startup has been handed to a worker.                                 *)
DoneOnlyWhenPendingConsumed ==
    opc = "done" => PendingAtStart \subseteq dispatched[run]

(* C8: between two increase_rate_limit_delay calls with no reset in *)
(* between, the returned delay never decreases, and every returned  *)
(* delay is at most MAX_DELAY.                                      *)
BackoffEscalation ==
    lastMut.op = "inc" =>
        /\ lastMut.val <= MAX_DELAY
        /\ lastMut.val >= lastMut.before
        /\ prevMut.op = "inc" => lastMut.val >= prevMut.val

\* two increases in a row, the second one returning the cap
BackoffEscalationWitness ==
    /\ lastMut.op = "inc" /\ prevMut.op = "inc"
    /\ lastMut.val = MAX_DELAY
    /\ prevMut.val < MAX_DELAY

(* C9: between two reset_rate_limit_delay calls with no increase in *)
(* between, the returned delay never increases, every returned      *)
(* delay is at least BASE_DELAY, and a call made at BASE_DELAY      *)
(* leaves the delay unchanged.                                      *)
BackoffDecay ==
    lastMut.op = "reset" =>
        /\ lastMut.val >= BASE_DELAY
        /\ lastMut.val <= lastMut.before
        /\ lastMut.before = BASE_DELAY => lastMut.val = BASE_DELAY
        /\ prevMut.op = "reset" => lastMut.val <= prevMut.val
        /\ CURRENT_DELAY = lastMut.val

\* two resets in a row that decayed the delay down to the base
BackoffDecayWitness ==
    /\ lastMut.op = "reset" /\ prevMut.op = "reset"
    /\ prevMut.val > BASE_DELAY
    /\ lastMut.before > BASE_DELAY
    /\ lastMut.val = BASE_DELAY

(* C10: the stored CURRENT_DELAY and every value returned by        *)
(* get_adaptive_delay (jitter included) lie in                      *)
(* [BASE_DELAY, MAX_DELAY].                                         *)
DelayClamped ==
    /\ BASE_DELAY <= CURRENT_DELAY /\ CURRENT_DELAY <= MAX_DELAY
    /\ \A t \in ThreadIds :
           lastGet[t] # NoDelay => BASE_DELAY <= lastGet[t] /\ lastGet[t] <= MAX_DELAY

\* get_adaptive_delay returned the cap after the delay was escalated to it
DelayClampedWitness ==
    /\ CURRENT_DELAY = MAX_DELAY
    /\ \E t \in ThreadIds : lastGet[t] = MAX_DELAY
    /\ lastMut.op = "inc"

\* what the page showed on each load attempt of task i, in order
LoadsOf(i) == SelectSeq(tasks[i].trail, LAMBDA e : e \in LoadOutcomes)

\* the wall on attempts 1 and 2, the content on attempt 3, and the two
\* escalations and the decay that go with them
WallWallContent == <<"rate440", "rate440", "content">>
TwoEscalationsThenDecay == <<"rate440", "inc", "rate440", "inc", "content", "reset">>

(* C11: a URL whose page load shows the rate-limit wall on attempts 1 and  *)
(* 2 and the content on attempt 3 escalates the delay exactly twice, then  *)
(* reports the success that decays it, and once its record has come back   *)
(* and the worker is through, the CSV holds a row for the URL and the      *)
(* ledger holds the URL.                                                   *)
RateLimitScenario ==
    \A i \in TaskIds :
        LoadsOf(i) = WallWallContent =>
            /\ tasks[i].pc # "load_reset" =>
                   tasks[i].trail \in {TwoEscalationsThenDecay,
                                       TwoEscalationsThenDecay \o <<"record">>,
                                       TwoEscalationsThenDecay \o <<"raise">>}
            /\ (Done(i) /\ tasks[i].trail = TwoEscalationsThenDecay \o <<"record">>) =>
                   /\ \E k \in RowsOf(tasks[i].url) : csvFile[k].ok
                   /\ tasks[i].url \in Range(ledgerFile)

\* a worker is through with a URL that went wall, wall, content
RateLimitScenarioWitness ==
    \E i \in TaskIds :
        /\ Done(i)
        /\ tasks[i].trail = TwoEscalationsThenDecay \o <<"record">>
        /\ RowsOf(tasks[i].url) # {}
        /\ CURRENT_DELAY > BASE_DELAY

(* C12: a URL whose CAPTCHA challenge was never solved ends with an        *)
(* error-flagged row in the CSV that classifies it, and with a ledger      *)
(* entry.                                                                  *)
CaptchaUnsolvedRecorded ==
    \A i \in TaskIds :
        (Done(i) /\ tasks[i].page = "captcha" /\ Len(tasks[i].trail) > 0
                 /\ tasks[i].trail[Len(tasks[i].trail)] = "record") =>
            /\ \E k \in RowsOf(tasks[i].url) : ~csvFile[k].ok
            /\ tasks[i].url \in Range(ledgerFile)

Distinct(q) == \A i, j \in 1..Len(q) : i # j => q[i] # q[j]
LastOf(q) == q[Len(q)]

RetryUntilSuccess ==
    \A i \in TaskIds :
        LET t == tasks[i]
            n == Len(t.trail)
        IN  /\ \A k \in 1..(n - 1) : t.trail[k] = "Network error"
            /\ n <= MAX_RETRIES
            /\ (n > 0 /\ n < MAX_RETRIES /\ LastOf(t.trail) = "Network error") =>
                   t.pc = "scraping" /\ t.attempt = n + 1
            /\ (n > 0 /\ LastOf(t.trail) = "ok") =>
                   /\ t.pc \in {"track", "done"}
                   /\ t.attempt = n
                   /\ t.err = "none" /\ t.rec.error = "none"

\* two retryable results, then the success on the last attempt allowed
RetryUntilSuccessWitness ==
    \E i \in TaskIds :
        /\ tasks[i].trail = <<"Network error", "Network error", "ok">>
        /\ tasks[i].pc = "done"
        /\ tasks[i].url \in Range(ledgerFile)

(* C15: the record scrape_profile returns for a successful scrape holds    *)
(* the input url, the extracted fields, a _process_time entry and no       *)
(* _error entry.                                                           *)
SuccessRecordComplete ==
    \A i \in TaskIds :
        (Len(tasks[i].trail) > 0 /\ LastOf(tasks[i].trail) = "ok") =>
            /\ tasks[i].rec.url = tasks[i].url
            /\ tasks[i].rec.fields
            /\ tasks[i].rec.process_time
            /\ tasks[i].rec.error = "none"

WriteFailureAborts ==
    \A u \in URLS :
        fate[run][u] = "write_error" =>
            /\ opc # "done"
            /\ \A j \in TaskIds : tasks[j].pc = "queued" => ~ENABLED StartTask(j)
            /\ u \notin AddedThisRun

(* C18: a URL whose processing was cut short by an unexpected exception    *)
(* ends with an error-flagged row in the CSV and with a ledger entry,      *)
(* while the rest of the batch is still processed.                         *)
UnexpectedExceptionRecorded ==
    \A i \in TaskIds :
        (Done(i) /\ Len(tasks[i].trail) > 0 /\ LastOf(tasks[i].trail) = "raise") =>
            /\ \E k \in RowsOf(tasks[i].url) : ~csvFile[k].ok
            /\ tasks[i].url \in Range(ledgerFile)

(* C19: at every moment of a batch the number of URLs whose per-URL        *)
(* pipeline is in flight is at most the current size of the worker pool.   *)
BoundedParallelism ==
    Cardinality({i \in TaskIds : InFlight(i)}) <= max_workers

\* the pool is full and a URL of the batch is waiting for a free worker
BoundedParallelismWitness ==
    /\ opc = "running"
    /\ Cardinality({i \in TaskIds : InFlight(i)}) = max_workers
    /\ \E i \in TaskIds : tasks[i].pc = "queued"

(* C20: the counter and the delay are changed only by the thread that      *)
(* holds RATE_LIMIT_LOCK, so no increase is lost: with no counter reset,   *)
(* RATE_LIMIT_COUNTER equals the number of increase_rate_limit_delay calls *)
(* that have returned.                                                     *)
NoLostUpdate ==
    /\ RATE_LIMIT_COUNTER = lastMut.incs
    /\ \A t \in ThreadIds : rc[t].st \in {"in", "loaded"} => RATE_LIMIT_LOCK = t

\* one worker is between the read and the store of the counter while the
\* other waits for the lock to increase it too, after an earlier increase
NoLostUpdateWitness ==
    /\ RATE_LIMIT_COUNTER >= 1
    /\ \E t, u \in ThreadIds :
           /\ t # u
           /\ rc[t] = Loaded("inc", RATE_LIMIT_COUNTER)
           /\ rc[u] = Waiting("inc")

\* the workers that are inside the `with csv_lock` block
InAppend == {i \in TaskIds : tasks[i].pc \in {"csv", "ledger"}}

(* C21: at most one worker at a time is inside the CSV/ledger append, it   *)
(* is the holder of csv_lock, and between its row and its ledger line no   *)
(* other worker has appended a row.                                        *)
SerializedAppends ==
    /\ Cardinality(InAppend) <= 1
    /\ \A i \in InAppend :
           /\ csv_lock = i
           /\ tasks[i].pc = "ledger" =>
                  Len(csvFile) > 0 /\ LastOf(csvFile).url = tasks[i].url
    /\ InAppend = {} => csv_lock = NoThread

\* one worker is between its row and its ledger line while another one
\* waits for the lock
SerializedAppendsWitness ==
    \E i, j \in TaskIds :
        /\ i # j
        /\ tasks[i].pc = "ledger"
        /\ tasks[j].pc = "lockwait"
        /\ Len(ledgerFile) > 0

(* C22: the sequence of pending URLs a run works through is the input URL  *)
(* list without the URLs of the ledger, in the order of the input list, so *)
(* it is the same in every run given the same list and the same ledger.    *)
PendingInInputOrder ==
    (mode = "tryst" /\ opc \in {"batch", "gather", "done"} /\ Distinct(all_urls)) =>
        urls_to_scrape = SelectSeq(all_urls, LAMBDA u : u \notin startLedger)

\* the pages that are not confirmed as a profile: the detection score stays
\* below 3 or the CAPTCHA page is still shown (profile_scraper.py:270-349)
UnconfirmedPages == {"missing", "captcha"}

(* C23: once the worker is through with a URL whose page was not confirmed *)
(* as a profile page, the record that came back for it carries an error    *)
(* flag and no success row is stored for the URL.                          *)
UnconfirmedNeverSuccess ==
    \A i \in TaskIds :
        (/\ Done(i)
         /\ tasks[i].page \in UnconfirmedPages
         /\ Len(tasks[i].trail) > 0 /\ LastOf(tasks[i].trail) = "record") =>
            /\ tasks[i].err # "none"
            /\ Distinct(all_urls) => \A k \in RowsOf(tasks[i].url) : ~csvFile[k].ok

(* C27: a run started with --reset begins with an empty CSV and an empty   *)
(* ledger, whatever the runs before it wrote, so it counts every URL of    *)
(* the input list as pending and hands every one of them to a worker.      *)
ResetThenAllPending ==
    argv_reset =>
        /\ startLedger = {}
        /\ opc = "start" => csvFile = <<>> /\ ledgerFile = <<>>
        /\ opc \notin {"start", "killed"} => total_to_process = Len(all_urls)
        /\ opc = "killed" => total_to_process \in {0, Len(all_urls)}
        /\ opc \in {"running", "advance", "pause", "done"} =>
               Range(all_urls) \subseteq dispatched[run]

\* a URL that the run before had saved and marked is handed to a worker
\* again in the run started with --reset
ResetThenAllPendingWitness ==
    /\ argv_reset /\ run = 2
    /\ \E u \in URLS :
           /\ fate[1][u] = "ok"
           /\ u \in dispatched[2]
           /\ u \in Range(ledgerFile)

\* the adjustment step of the batch loop and the reset of the counter
AdjustmentStep ==
    /\ (opc = "running" /\ opc' = "reset_counter") =>
           /\ RATE_LIMIT_COUNTER > RateLimitThreshold
           /\ max_workers' = IF Max(2, max_workers \div 2) < max_workers
                              THEN Max(2, max_workers \div 2) ELSE max_workers
           /\ batch_size' = IF Max(10, batch_size \div 2) < batch_size
                             THEN Max(10, batch_size \div 2) ELSE batch_size
    /\ (opc = "running" /\ opc' = "advance") =>
           /\ RATE_LIMIT_COUNTER <= RateLimitThreshold
           /\ max_workers' = max_workers /\ batch_size' = batch_size
    /\ (opc = "reset_counter" /\ opc' # opc) => RATE_LIMIT_COUNTER' = 0
    /\ opc # "start" => max_workers' <= max_workers /\ batch_size' <= batch_size

\* halving never grows a size, keeps the floor and halves above twice it
HalvingShrinks ==
    /\ \A w \in 1..16 :
           /\ AdjustedWorkers(w) <= w /\ AdjustedWorkers(w) >= Min(w, 2)
           /\ w >= 4 => AdjustedWorkers(w) = w \div 2
    /\ \A b \in 1..InitialBatchSize :
           /\ AdjustedBatch(b) <= b /\ AdjustedBatch(b) >= Min(b, 10)
           /\ b >= 20 => AdjustedBatch(b) = b \div 2

(* C28: after a batch in which RATE_LIMIT_COUNTER exceeds the threshold    *)
(* the pool size becomes max(2, workers // 2) and the batch size           *)
(* max(10, batch // 2) when that is smaller, and the counter is set to 0;  *)
(* no step of a run after its start makes the pool or the batch larger.    *)
ConcurrencyAdjustment == [][AdjustmentStep /\ HalvingShrinks]_vars

\* a batch with more than five rate-limit signals is over: the batch size
\* is halved, the pool is at its floor and the counter is back at zero
ConcurrencyAdjustmentWitness ==
    /\ opc = "advance"
    /\ lastMut.incs > RateLimitThreshold
    /\ RATE_LIMIT_COUNTER = 0
    /\ batch_size = InitialBatchSize \div 2
    /\ max_workers = 2

(* C29: once a worker is through with a URL whose attempt ended in a       *)
(* rate-limit failure, it has called increase_rate_limit_delay for it, so  *)
(* the delay and the counter have escalated.                               *)
RateLimitReported ==
    \A i \in TaskIds :
        (Done(i) /\ tasks[i].err = "HTTP ERROR 440 - Rate limited") =>
            /\ "inc" \in Range(tasks[i].trail)
            /\ lastMut.incs >= 1
            /\ CURRENT_DELAY > BASE_DELAY \/ lastMut.op = "reset"

(* C30: the "Agree and close" control is never clicked on a page that      *)
(* shows the rate-limit wall or the CAPTCHA challenge: both checks come    *)
(* before the consent action.                                              *)
DetectionPriority ==
    \A i \in TaskIds :
        tasks[i].pc = "agree_clicked" => tasks[i].page \notin {"rate440", "captcha"}

(* C24: no field of the record holds a contact value that contains the     *)
(* obfuscation glyph, whichever way the value was found: revealed span,    *)
(* hyperlink target, plain text or the scan of the page's links.           *)
NoObfuscatedValue ==
    epc \in {"extracted", "saved"} =>
        \A f \in ContactFields : ~Includes(data[f], Glyph)

\* the phrases an error page shows
ErrorPhrases == {<<"An error occurred">>, <<"Please try again">>,
                 <<"This page isn't working">>, <<"Error">>}

(* C25: in the stored row no field, the name included, holds a value that  *)
(* is an error-page phrase: such a value is discarded and the cell is      *)
(* empty, in the rows of profile_scraper and in the rows of scraper.       *)
ErrorPhrasesDiscarded ==
    epc = "saved" =>
        \A k \in DataKeys : Strip(csvCells[k]) \notin ErrorPhrases

\* the label names none of the fields: it contains no field name, is not
\* the name of the X platform and does not carry the renaming marker
NamesNoField(label) ==
    /\ \A f \in ContactFields : ~IsInfix(Chars[f], label)
    /\ label # Chars["x"]
    /\ ~IsInfix(FormerlyTwitter, label)

(* C26: the field a contact value is stored under depends on the label     *)
(* alone, whatever its case: a label with 'formerly twitter' goes to       *)
(* twitter, 'Whatsapp' to whatsapp, and the value of a label that names no *)
(* known field is stored under no field.                                   *)
FieldMappingSound ==
    (/\ mode \in {"extract_selenium", "extract_bright"}
     /\ epc = "extracted"
     /\ Len(dom.rows) = 1 /\ dom.anchors = <<>> /\ dom.rows[1].href = NoElement) =>
        LET label == Lower(Strip(dom.rows[1].label))
            stored == {f \in ContactFields : data[f] # NoValue}
        IN  /\ IsInfix(FormerlyTwitter, label) => stored \subseteq {"twitter"}
            /\ label = Chars["whatsapp"] => stored \subseteq {"whatsapp"}
            /\ NamesNoField(label) => stored = {}

(* C31: when the load loop ends on the rate-limit wall, scrape_profile     *)
(* goes straight to the record with the rate-limit error: neither the      *)
(* consent handler nor the CAPTCHA handler is run on that page.            *)
RateLimitWallNoAction ==
    \A i \in TaskIds :
        tasks[i].page = "rate440" => tasks[i].pc \notin {"agree_clicked", "no_banner"}

(* C32: one handle_captcha call is a single cycle: the solver is called at *)
(* most once, at most one answer is submitted to the page, and the call    *)
(* returns True exactly when no challenge marker is left on the page.      *)
SingleCaptchaCycle ==
    cpc = "returned" =>
        /\ solverCalls <= 1
        /\ answers <= 1
        /\ captcha_result = "True" <=> markers = {}

(* C33: the solver round trip ends: the result is asked for at most        *)
(* max_attempts times, every reply after which the loop goes on (HTTP      *)
(* errors and unparsable replies included) uses up one attempt, and the    *)
(* function returns the text only after a 'ready' reply that carries a     *)
(* text, and None in every other case.                                     *)
SolverRoundTripBounded ==
    /\ polls <= max_attempts
    /\ attempt <= max_attempts
    /\ cpc = "poll" => polls = attempt /\ captcha_text = "none"
    /\ cpc \in {"solved", "button", "recheck"} => captcha_text \in {"text", "None"}
    /\ captcha_text = "text" => lastReply = "ready_text"
    /\ (captcha_text = "None" /\ cpc = "solved") => lastReply # "ready_text"

\* the service answered every request of profile_finder's loop with a body
\* that does not parse, and the function gave up after the last attempt
SolverRoundTripBoundedWitness ==
    /\ mode = "captcha_finder"
    /\ cpc = "solved"
    /\ polls = FinderMaxAttempts
    /\ lastReply = "unparsable"
    /\ captcha_text = "None"

\* the driver.get calls scrape_profile has made for the task: the load
\* outcomes of its trail, less the exception of the extraction
PageLoads(i) ==
    Len(LoadsOf(i)) - (IF /\ tasks[i].pc = "done"
                          /\ Len(tasks[i].trail) > 0
                          /\ LastOf(tasks[i].trail) = "raise"
                       THEN 1 ELSE 0)

(* C34: scrape_profile_with_retries calls scrape_profile at most           *)
(* max_retries times for a URL and is through with it after the last one,  *)
(* and the page-load loop of scrape_profile loads the page at most three   *)
(* times and is left after the third load, whatever the failures are.      *)
AttemptCap ==
    \A i \in TaskIds :
        /\ mode = "tryst" =>
               /\ Len(tasks[i].trail) <= MAX_RETRIES
               /\ tasks[i].attempt <= MAX_RETRIES
               /\ Len(tasks[i].trail) = MAX_RETRIES => tasks[i].pc \in {"track", "done"}
        /\ mode = "single" =>
               /\ PageLoads(i) <= max_page_load_attempts
               /\ tasks[i].pc = "load" =>
                      PageLoads(i) = tasks[i].attempt /\ PageLoads(i) < max_page_load_attempts

\* three retryable failures in a row: the URL is given up with the error
\* record and the loop is left
AttemptCapWitness ==
    \E i \in TaskIds :
        /\ mode = "tryst"
        /\ tasks[i].trail = <<"Network error", "Network error", "Network error">>
        /\ tasks[i].err = "Failed after attempts"
        /\ tasks[i].pc = "done"

\* a TrystScraper instance exists: from its construction to the end of
\* the process
InstanceAlive == mode = "tryst" /\ opc \in {"constructed", "batch", "gather", "done"}

\* the non-blank lines of the ledger file
NonBlankLines == {ledgerFile[k] : k \in 1..Len(ledgerFile)} \cap URLS

LedgerInSync == InstanceAlive => scraped_urls = NonBlankLines

\* no step takes a line out of the file, and no step of an instance takes
\* a URL out of its set
NothingRemoved ==
    /\ Len(ledgerFile') >= Len(ledgerFile)
    /\ SubSeq(ledgerFile', 1, Len(ledgerFile)) = ledgerFile
    /\ (InstanceAlive /\ InstanceAlive') => scraped_urls \subseteq scraped_urls'

(* C35: between the operations of a TrystScraper instance its scraped_urls *)
(* set is the set of the non-blank lines of the ledger file;               *)
(* _track_scraped_url adds the URL to both, and nothing is ever removed    *)
(* from either.                                                            *)
LedgerConsistency == []LedgerInSync /\ [][NothingRemoved]_vars

\* an instance that loaded a URL from the file of the run before and has
\* tracked another one itself
LedgerConsistencyWitness ==
    /\ InstanceAlive
    /\ run = 2
    /\ startLedger # {}
    /\ AddedThisRun # {}
    /\ startLedger \cup AddedThisRun \subseteq scraped_urls

(* C36: get_adaptive_delay never blocks: a thread that has called it can   *)
(* always go on to its value at once, whatever the other threads are       *)
(* doing, also while one of them is inside increase_rate_limit_delay or    *)
(* reset_rate_limit_delay.                                                 *)
GetNeverBlocks ==
    \A t \in ThreadIds :
        rc[t] = Waiting("get") => RATE_LIMIT_LOCK = NoThread

\* a step that appends a ledger line finds the CSV row of that URL already
\* written, and a step that appends a CSV row is a step of a URL whose
\* load and extraction have ended in this run
WritesInOrder ==
    /\ ledgerFile' # ledgerFile =>
           /\ Len(ledgerFile') = Len(ledgerFile) + 1
           /\ RowsOf(LastOf(ledgerFile')) # {}
           /\ csvFile' = csvFile
    /\ csvFile' # csvFile =>
           /\ Len(csvFile') = Len(csvFile) + 1
           /\ fate'[run][LastOf(csvFile').url] # "none"
           /\ \E i \in TaskIds :
                  /\ tasks[i].url = LastOf(csvFile').url
                  /\ tasks[i].pc \in {"csv", "scraping"}
                  /\ tasks'[i].pc \in {"ledger", "track"}

PaginationWalker ==
    mode = "walker" =>
        /\ \A p \in Pages : extracted[p] <= 1 /\ (extracted[p] = 1 <=> p \in visited_pages)
        /\ Distinct(pages_to_visit)
        /\ wpc = "visit" => current_url \notin visited_pages
        /\ lastLoad = "failed" => current_url \notin visited_pages
        /\ wpc = "finished" => pages_to_visit = <<>>

\* a walk that read two pages, failed to load the third and ended
PaginationWalkerWitness ==
    /\ mode = "walker"
    /\ wpc = "finished"
    /\ Cardinality(visited_pages) = 2
    /\ lastLoad = "failed"
    /\ \A p \in visited_pages : extracted[p] = 1

(* C39: after save_urls(urls) the URL file holds exactly its entries of    *)
(* before and urls, so the set of discovered URLs never shrinks, from call *)
(* to call and from run to run, and a call with the urls of the call       *)
(* before leaves the file as it is.                                        *)
SaveUrlsMonotonic ==
    (mode = "walker" /\ lastUrls # <<>>) =>
        /\ load_saved_urls(urlFile) = load_saved_urls(prevFile) \cup lastUrls[1]
        /\ load_saved_urls(prevFile) \subseteq load_saved_urls(urlFile)
        /\ prevUrls = lastUrls => urlFile = prevFile

\* in a second run the links of a page are saved twice in a row, on top of
\* a file that holds a URL the run has not seen
SaveUrlsMonotonicWitness ==
    /\ mode = "walker"
    /\ wrun = 2
    /\ lastUrls # <<>>
    /\ prevUrls = lastUrls
    /\ urlFile = prevFile
    /\ load_saved_urls(urlFile) # lastUrls[1]
====
